---- MODULE Spec2Model ----
(***************************************************************************)
(* Model of the order line-item resolution engine of the Shopify ->        *)
(* SimplyPrint sync server (server/src/index.ts).                          *)
(*                                                                         *)
(* Text is modelled as a sequence of characters; a character is a          *)
(* one-element name ("a", "A", ".", ...).  Two names stand for code points *)
(* outside ASCII: "e_acute" (U+00E9) and "comb_acute" (U+0301).            *)
(***************************************************************************)
EXTENDS Integers, Sequences, FiniteSets, TLC

\* null of an identifier, of a text column, of a JSON column
NULL == "null"
NoName == <<"<null>">>
JsonNull == [json |-> "null"]

\* ------------------------------------------------------------------------
\* Text helpers (String.prototype methods used by the server)
\* ------------------------------------------------------------------------

LowerLetters ==
  {"a","b","c","d","e","f","g","h","i","j","k","l","m",
   "n","o","p","q","r","s","t","u","v","w","x","y","z"}

Digits == {"0","1","2","3","4","5","6","7","8","9"}

UpperToLower ==
  ("A" :> "a") @@ ("B" :> "b") @@ ("C" :> "c") @@ ("D" :> "d") @@
  ("E" :> "e") @@ ("F" :> "f") @@ ("G" :> "g") @@ ("H" :> "h") @@
  ("I" :> "i") @@ ("J" :> "j") @@ ("K" :> "k") @@ ("L" :> "l") @@
  ("M" :> "m") @@ ("N" :> "n") @@ ("O" :> "o") @@ ("P" :> "p") @@
  ("Q" :> "q") @@ ("R" :> "r") @@ ("S" :> "s") @@ ("T" :> "t") @@
  ("U" :> "u") @@ ("V" :> "v") @@ ("W" :> "w") @@ ("X" :> "x") @@
  ("Y" :> "y") @@ ("Z" :> "z")

Range(f) == {f[x] : x \in DOMAIN f}

\* The sequence of the elements of s whose index is in I, in order.
SeqOfIdx(s, I) ==
  LET F[k \in 0..Len(s)] ==
        IF k = 0 THEN <<>>
        ELSE IF k \in I THEN Append(F[k-1], s[k]) ELSE F[k-1]
  IN F[Len(s)]

\* The concatenation of a sequence of sequences (Array.prototype.flatMap).
Flatten(ss) ==
  LET F[k \in 0..Len(ss)] == IF k = 0 THEN <<>> ELSE F[k-1] \o ss[k]
  IN F[Len(ss)]

\* String.prototype.trim
Trim(s) ==
  LET solid == {i \in 1..Len(s) : s[i] # " "}
  IN IF solid = {} THEN <<>>
     ELSE SubSeq(s, CHOOSE i \in solid : \A j \in solid : i <= j,
                    CHOOSE i \in solid : \A j \in solid : i >= j)

\* String.prototype.split(" ")
RECURSIVE Split(_)
Split(s) ==
  IF \A i \in 1..Len(s) : s[i] # " " THEN <<s>>
  ELSE LET k == CHOOSE i \in 1..Len(s) :
                  s[i] = " " /\ \A j \in 1..(i-1) : s[j] # " "
       IN <<SubSeq(s, 1, k-1)>> \o Split(SubSeq(s, k+1, Len(s)))

\* String.prototype.normalize("NFD") on one code point
NFD(c) == IF c = "e_acute" THEN <<"e", "comb_acute">> ELSE <<c>>

\* the range U+0300..U+036F
IsCombining(c) == c = "comb_acute"

\* String.prototype.toLowerCase on one code point
ToLower(c) == IF c \in DOMAIN UpperToLower THEN UpperToLower[c] ELSE c

\* the class [a-z0-9]
IsAlnum(c) == c \in LowerLetters \cup Digits

\* replace(/[^a-z0-9]/g, " "): every character of a run becomes a space
Collapse_EachChar(s) ==
  [i \in 1..Len(s) |-> IF IsAlnum(s[i]) THEN s[i] ELSE " "]

\* replace(/[^a-z0-9]+/g, " ")
Collapse(s) ==
  LET marked == [i \in 1..Len(s) |->
                   IF IsAlnum(s[i]) THEN s[i]
                   ELSE IF i > 1 /\ ~IsAlnum(s[i-1]) THEN "<dropped>"
                   ELSE " "]
  IN SelectSeq(marked, LAMBDA c : c # "<dropped>")

normalizeText(value) ==
  LET decomposed == Flatten([i \in 1..Len(value) |-> NFD(value[i])])
      stripped   == SelectSeq(decomposed, LAMBDA c : ~IsCombining(c))
      lowered    == [i \in 1..Len(stripped) |-> ToLower(stripped[i])]
  IN Trim(Collapse(lowered))

\* ------------------------------------------------------------------------
\* File names used in the checks
\* ------------------------------------------------------------------------

WidgetGcode == <<"W","i","d","g","e","t",".","g","c","o","d","e">>
widgetGcodeLower == <<"w","i","d","g","e","t",".","g","c","o","d","e">>
WIDGETGCODE == <<"W","I","D","G","E","T",".","G","C","O","D","E">>
WidgetPadded == <<" ">> \o WidgetGcode
Part01Gcode == <<"P","a","r","t","-","0","1",".","g","c","o","d","e">>
Part01 == <<"P","a","r","t","-","0","1">>
GhostStl == <<"G","h","o","s","t",".","s","t","l">>
CafeAccent == <<"C","a","f","e_acute">>
cafePlain == <<"c","a","f","e">>
Dashes == <<"-","-">>
Blank == <<" ">>

\* ------------------------------------------------------------------------
\* Mapping rows and their file lists
\* ------------------------------------------------------------------------

\* The column simplyprintFileNames holds null or a string; a string is
\* the JSON text of an array of names, another JSON value, or no JSON.
JsonArray(files) == [json |-> "array", items |-> files]
JsonScalar == [json |-> "scalar"]
JsonInvalid == [json |-> "invalid"]

\* normalizeMappingFiles without the Set of seen names
normalizeMappingFiles_NoDedup(mapping) ==
  LET raw    == mapping.simplyprintFileNames
      files  == IF raw.json = "array" THEN raw.items ELSE <<>>
      legacy == IF mapping.simplyprintFileName # NoName
                   /\ mapping.simplyprintFileName # <<>>
                THEN <<mapping.simplyprintFileName>> ELSE <<>>
      all    == files \o legacy
      trimmed == [i \in 1..Len(all) |-> Trim(all[i])]
  IN SelectSeq(trimmed, LAMBDA name : Len(name) > 0)

\* normalizeMappingFiles with the name itself as the key of seen
normalizeMappingFiles_ExactKey(mapping) ==
  LET merged == normalizeMappingFiles_NoDedup(mapping)
  IN SeqOfIdx(merged, {i \in 1..Len(merged) :
                         \A j \in 1..(i-1) : merged[j] # merged[i]})

normalizeMappingFiles(mapping) ==
  LET raw    == mapping.simplyprintFileNames
      files  == IF raw.json = "array" THEN raw.items ELSE <<>>
      legacy == IF mapping.simplyprintFileName # NoName
                   /\ mapping.simplyprintFileName # <<>>
                THEN <<mapping.simplyprintFileName>> ELSE <<>>
      all    == files \o legacy
      trimmed == [i \in 1..Len(all) |-> Trim(all[i])]
      merged == SelectSeq(trimmed, LAMBDA name : Len(name) > 0)
      first  == {i \in 1..Len(merged) :
                   \A j \in 1..(i-1) :
                      normalizeText(merged[j]) # normalizeText(merged[i])}
  IN SeqOfIdx(merged, first)

\* prisma.mapping.findFirst({where: {shopifyProductId, shopifyVariantId}}):
\* the rows it may return (no orderBy: any matching row), or NoRow.
NoRow == [id |-> 0]

\* findFirst with a where clause that omits shopifyVariantId
findFirstMapping_ProductOnly(rows, productId, variantId) ==
  LET hits == {m \in rows : m.shopifyProductId = productId}
  IN IF hits = {} THEN {NoRow} ELSE hits

findFirstMapping(rows, productId, variantId) ==
  LET hits == {m \in rows : /\ m.shopifyProductId = productId
                            /\ m.shopifyVariantId = variantId}
  IN IF hits = {} THEN {NoRow} ELSE hits

\* findMapping that asks for the product-level row first
findMapping_ProductFirst(rows, productId, variantId) ==
  LET productMatch == {m \in rows : /\ m.shopifyProductId = productId
                                    /\ m.shopifyVariantId = NULL}
      variantMatch == {m \in rows : /\ m.shopifyProductId = productId
                                    /\ m.shopifyVariantId = variantId}
  IN IF productMatch # {} THEN productMatch
     ELSE IF variantId # NULL /\ variantMatch # {} THEN variantMatch
     ELSE {NoRow}

\* The rows findMapping may return.  variantId is NULL or a non-empty id
\* (the only caller maps a falsy variant_id to null).
findMapping(rows, productId, variantId) ==
  LET variantMatch == IF variantId # NULL
                      THEN findFirstMapping(rows, productId, variantId)
                      ELSE {NoRow}
  IN (variantMatch \ {NoRow})
       \cup (IF NoRow \in variantMatch
             THEN findFirstMapping(rows, productId, NULL) ELSE {})

\* ------------------------------------------------------------------------
\* The file catalog of the print service and the file-id resolver
\* ------------------------------------------------------------------------

\* A catalog answers a search with a failure or with a list of files
\* [id, name, ext]; ext is NoName when the file has none.
SearchFailed == [err |-> TRUE, files |-> <<>>]
SearchOk(files) == [err |-> FALSE, files |-> files]

\* GET /files/GetFiles?search=query
Search(cat, query) ==
  IF query \in DOMAIN cat THEN cat[query] ELSE SearchOk(<<>>)

LastIndexOf(s, c) ==
  LET at == {i \in 1..Len(s) : s[i] = c}
  IN IF at = {} THEN 0 ELSE CHOOSE i \in at : \A j \in at : i >= j

\* an array read back with its duplicates
Dedup_Keep(list) == list

\* new Set(list) read back in insertion order
Dedup(list) ==
  SeqOfIdx(list, {i \in 1..Len(list) : \A j \in 1..(i-1) : list[j] # list[i]})

\* buildSearchQueries that searches for the literal name only
buildSearchQueries_NameOnly(fileName) ==
  SelectSeq(<<Trim(fileName)>>, LAMBDA v : Len(v) > 0)

buildSearchQueries(fileName) ==
  LET trimmed == Trim(fileName)
      dot     == LastIndexOf(trimmed, ".")
      base    == IF dot > 0 THEN SubSeq(trimmed, 1, dot - 1) ELSE trimmed
      tokens  == SelectSeq(Split(normalizeText(base)), LAMBDA t : Len(t) > 2)
      queries == SelectSeq(<<trimmed, base>> \o tokens, LAMBDA v : Len(v) > 0)
  IN Dedup(queries)

FullName(file) ==
  IF file.ext # NoName /\ file.ext # <<>>
  THEN file.name \o <<".">> \o file.ext ELSE file.name

\* the predicate of files.find in resolveSimplyPrintFileId
MatchesTarget(file, targetNormalized) ==
  \/ normalizeText(FullName(file)) = targetNormalized
  \/ normalizeText(file.name) = targetNormalized

\* The loop of resolveSimplyPrintFileId from attempt k on; issued is the
\* list of the searches sent so far.
RECURSIVE ResolveFrom(_, _, _, _, _)
ResolveFrom(cat, searchAttempts, targetNormalized, k, issued) ==
  IF k > Len(searchAttempts)
  THEN [outcome |-> "notfound", id |-> NULL, searches |-> issued]
  ELSE LET response == Search(cat, searchAttempts[k])
           sent     == Append(issued, searchAttempts[k])
           files    == response.files
           hits     == {i \in 1..Len(files) :
                          MatchesTarget(files[i], targetNormalized)}
       IN IF response.err
          THEN [outcome |-> "error", id |-> NULL, searches |-> sent]
          ELSE IF hits # {}
          THEN [outcome |-> "ok",
                id |-> files[CHOOSE i \in hits : \A j \in hits : i <= j].id,
                searches |-> sent]
          ELSE ResolveFrom(cat, searchAttempts, targetNormalized, k + 1, sent)

resolveSimplyPrintFileId(cat, fileName) ==
  ResolveFrom(cat, buildSearchQueries(fileName), normalizeText(fileName),
              1, <<>>)

\* ------------------------------------------------------------------------
\* scoreMatch and GET /api/simplyprint/suggest
\* ------------------------------------------------------------------------

\* String.prototype.includes
Includes(hay, needle) ==
  \E i \in 0..(Len(hay) - Len(needle)) :
    SubSeq(hay, i + 1, i + Len(needle)) = needle

\* replace(/\s+/g, "")
Compact(s) == SelectSeq(s, LAMBDA c : c # " ")

\* The sum of the elements of a sequence of numbers.
Sum(ns) ==
  LET F[k \in 0..Len(ns)] == IF k = 0 THEN 0 ELSE F[k-1] + ns[k]
  IN F[Len(ns)]

\* a scoreMatch without the short cut for an exact match
scoreMatch_NoShortCut(query, fileName) ==
  LET normalizedFile == normalizeText(fileName)
      fileTokens     == Split(normalizedFile)
      queryTokens    == SelectSeq(Split(query), LAMBDA t : Len(t) > 1)
  IN IF normalizedFile = <<>> THEN 0
     ELSE Sum([k \in 1..Len(queryTokens) |->
                 IF queryTokens[k] \in Range(fileTokens) THEN 8
                 ELSE IF Includes(normalizedFile, queryTokens[k]) THEN 4
                 ELSE 0])
          + (IF Includes(Compact(normalizedFile), Compact(query))
                /\ Len(Compact(query)) > 3 THEN 10 ELSE 0)
          + (IF Includes(normalizedFile, query) THEN 6 ELSE 0)

scoreMatch(query, fileName) ==
  LET normalizedFile == normalizeText(fileName)
      fileTokens     == Split(normalizedFile)
      queryTokens    == SelectSeq(Split(query), LAMBDA t : Len(t) > 1)
  IN IF normalizedFile = <<>> THEN 0
     ELSE IF normalizedFile = query THEN 100
     ELSE Sum([k \in 1..Len(queryTokens) |->
                 IF queryTokens[k] \in Range(fileTokens) THEN 8
                 ELSE IF Includes(normalizedFile, queryTokens[k]) THEN 4
                 ELSE 0])
          + (IF Includes(Compact(normalizedFile), Compact(query))
                /\ Len(Compact(query)) > 3 THEN 10 ELSE 0)
          + (IF Includes(normalizedFile, query) THEN 6 ELSE 0)

\* slice(0, n)
Slice(s, n) == SubSeq(s, 1, IF Len(s) < n THEN Len(s) ELSE n)

\* a sort that puts an entry before the entries of its score met earlier
SortByScore_TiesReversed(items) ==
  LET F[k \in 0..Len(items)] ==
        IF k = 0 THEN <<>>
        ELSE LET sorted == F[k-1]
                 p == Cardinality({j \in 1..(k-1) :
                                     sorted[j].score > items[k].score})
             IN SubSeq(sorted, 1, p) \o <<items[k]>>
                \o SubSeq(sorted, p + 1, k - 1)
  IN F[Len(items)]

\* sort((a, b) => b.score - a.score): Array.prototype.sort is stable
SortByScore(items) ==
  LET F[k \in 0..Len(items)] ==
        IF k = 0 THEN <<>>
        ELSE LET sorted == F[k-1]
                 p == Cardinality({j \in 1..(k-1) :
                                     sorted[j].score >= items[k].score})
             IN SubSeq(sorted, 1, p) \o <<items[k]>>
                \o SubSeq(sorted, p + 1, k - 1)
  IN F[Len(items)]

\* slice(0, 4) of the tokens, slice(0, 8) of the scored files
TokenLimit == 4
SuggestLimit == 8

\* String(file.id ?? file.name)
FileKey(file) == IF file.id = NULL THEN <<"name", file.name>>
                 ELSE <<"id", file.id>>

\* The tokens the handler searches for.
SuggestTokens(normalizedQuery) ==
  Dedup(Slice(SelectSeq(Split(normalizedQuery), LAMBDA t : Len(t) > 2),
              TokenLimit))

\* The files of the responses in the order met, the first of each key.
Discovered(responses) ==
  LET files == Flatten([k \in 1..Len(responses) |-> responses[k].files])
  IN SeqOfIdx(files, {i \in 1..Len(files) :
                        \A j \in 1..(i-1) : FileKey(files[j]) # FileKey(files[i])})

Scored(files, normalizedQuery) ==
  [k \in 1..Len(files) |->
     [id |-> files[k].id, name |-> files[k].name, ext |-> files[k].ext,
      fullName |-> FullName(files[k]),
      score |-> scoreMatch(normalizedQuery, FullName(files[k]))]]

\* The files of the answer: the scored files of the responses with a
\* positive score, sorted, the first 8.
Ranked(responses, normalizedQuery) ==
  Slice(SortByScore(
          SelectSeq(Scored(Discovered(responses), normalizedQuery),
                    LAMBDA item : item.score > 0)),
        SuggestLimit)

\* The handler of GET /api/simplyprint/suggest?query=...: the status and
\* the files of the answer.
suggest(cat, env, rawQuery) ==
  LET query           == Trim(rawQuery)
      normalizedQuery == normalizeText(query)
      tokens          == SuggestTokens(normalizedQuery)
      responses       == [k \in 1..Len(tokens) |-> Search(cat, tokens[k])]
  IN IF ~env THEN [status |-> 500, files |-> <<>>]
     ELSE IF query = <<>> \/ tokens = <<>> THEN [status |-> 200, files |-> <<>>]
     ELSE IF \E k \in 1..Len(responses) : responses[k].err
     THEN [status |-> 500, files |-> <<>>]
     ELSE [status |-> 200, files |-> Ranked(responses, normalizedQuery)]

\* ------------------------------------------------------------------------
\* The queue group and the queue submission
\* ------------------------------------------------------------------------

\* 5 * 60_000 ms; the clock counts minutes
TTL == 5

Shopify == <<"S","h","o","p","i","f","y">>
SHOPIFY == <<"S","H","O","P","I","F","Y">>
Other == <<"O","t","h","e","r">>

\* process.env.SIMPLYPRINT_QUEUE_GROUP_NAME ?? "Shopify"
SIMPLYPRINT_QUEUE_GROUP_NAME == Shopify

toLowerCase(s) == [i \in 1..Len(s) |-> ToLower(s[i])]

\* GET /queue/groups/Get answers with a failure or a list of [id, name].
GroupsFailed == [err |-> TRUE, list |-> <<>>]
GroupsOk(list) == [err |-> FALSE, list |-> list]

\* a cache whose entry is still served at the age of TTL
CacheFresh_Inclusive(cached, clock) ==
  cached.id # <<>> /\ clock - cached.at <= TTL

\* a cache test that takes the id 0 for no entry
CacheFresh_Truthy(cached, clock) ==
  cached.id # <<>> /\ cached.id[1] # 0 /\ clock - cached.at < TTL

\* cachedQueueGroupId !== null && Date.now() - cachedQueueGroupAt < TTL
CacheFresh(cached, clock) ==
  cached.id # <<>> /\ clock - cached.at < TTL

\* The cache is [id, at]: id is <<>> (null) or <<n>>.  A setting row is
\* <<>> (no row) or <<n>>, the row written as String(n).
\* The result: ok (FALSE: the call threw), the id returned, the cache
\* afterwards and the calls made ("setting", "groups").
getQueueGroupId(cached, clock, settingRow, settingOk, groupsResp) ==
  IF CacheFresh(cached, clock)
  THEN [ok |-> TRUE, id |-> cached.id[1], cache |-> cached, calls |-> <<>>]
  ELSE IF ~settingOk
  THEN [ok |-> FALSE, id |-> 0, cache |-> cached, calls |-> <<"setting">>]
  ELSE IF settingRow # <<>> /\ settingRow[1] # 0
  THEN [ok |-> TRUE, id |-> settingRow[1],
        cache |-> [id |-> <<settingRow[1]>>, at |-> clock],
        calls |-> <<"setting">>]
  ELSE IF groupsResp.err
  THEN [ok |-> FALSE, id |-> 0, cache |-> cached,
        calls |-> <<"setting", "groups">>]
  ELSE LET groups == groupsResp.list
           hits   == {i \in 1..Len(groups) :
                        toLowerCase(groups[i].name)
                          = toLowerCase(SIMPLYPRINT_QUEUE_GROUP_NAME)}
           found  == IF hits = {} THEN 0
                     ELSE groups[CHOOSE i \in hits : \A j \in hits : i <= j].id
       IN [ok |-> TRUE, id |-> found,
           cache |-> [id |-> <<found>>, at |-> clock],
           calls |-> <<"setting", "groups">>]

\* ------------------------------------------------------------------------
\* State
\* ------------------------------------------------------------------------

VARIABLES
  arg,            \* the input of the function under check
  ret,            \* its result
  called,         \* whether it has been applied
  mappings,       \* the Mapping table
  unmatched,      \* the UnmatchedLineItem table, in order of creation
  catalog,        \* the files of the print service, by search query
  envOk,          \* SIMPLYPRINT_COMPANY_ID and SIMPLYPRINT_API_KEY are set
  webhookSecret,  \* SHOPIFY_WEBHOOK_SECRET is set
  setting,        \* the Setting row simplyprintQueueGroupId
  requests,       \* the operator's requests, each with its position
  cache,          \* cachedQueueGroupId, cachedQueueGroupAt
  now,            \* Date.now(), in minutes
  pc,             \* where the webhook handler is
  signature,      \* "valid" or "invalid" once compared with the HMAC,
                  \* "threw" when the HMAC of a mismatching request failed
  order,          \* orderId, orderName, lineItems of the request
  itemIdx,        \* the line item in work
  filesToQueue,   \* its files
  fileIdx,        \* the file in work
  res,            \* the response sent
  log             \* what the handler did, in order

fnVars == <<arg, ret, called>>

worldVars == <<mappings, catalog, envOk, webhookSecret, setting, requests>>

handlerVars == <<unmatched, cache, now, pc, signature, order, itemIdx,
                 filesToQueue, fileIdx, res, log>>

vars == <<fnVars, worldVars, handlerVars>>

NoOrder == [orderId |-> "", orderName |-> NULL, lineItems |-> <<>>]
NoResponse == [status |-> 0, body |-> ""]

\* The handler before a request is received.
HandlerIdle ==
  /\ cache = [id |-> <<>>, at |-> 0]
  /\ now = 0
  /\ pc = "idle"
  /\ signature = "unchecked"
  /\ order = NoOrder
  /\ itemIdx = 0
  /\ filesToQueue = <<>>
  /\ fileIdx = 0
  /\ res = NoResponse
  /\ log = <<>>

\* The server after construction, no request received and no row in the
\* UnmatchedLineItem table.
HandlerStart ==
  /\ unmatched = <<>>
  /\ HandlerIdle

\* A server with an empty database, unused when a function is checked
\* on its own.
WorldUnused ==
  /\ mappings = {}
  /\ catalog = <<>>
  /\ envOk = TRUE
  /\ webhookSecret = FALSE
  /\ setting = <<>>
  /\ requests = <<>>

FnUnused ==
  /\ arg = <<>>
  /\ ret = <<>>
  /\ called = FALSE

\* ------------------------------------------------------------------------
\* Bounded inputs
\* ------------------------------------------------------------------------

SeqsUpTo(S, n) == UNION {[1..k -> S] : k \in 0..n}

\* A Mapping row as POST /api/mappings writes it.
Row(id, productId, variantId, names, skip) ==
  [id |-> id, shopifyProductId |-> productId, shopifyVariantId |-> variantId,
   simplyprintFileNames |-> JsonArray(names),
   simplyprintFileName |-> IF names = <<>> THEN NoName ELSE names[1],
   skipQueue |-> skip]

\* A file of the catalog.
File(id, name, ext) == [id |-> id, name |-> name, ext |-> ext]

Gcode == <<"g","c","o","d","e">>
Stl == <<"s","t","l">>
PART01GCODE == <<"P","A","R","T"," ","0","1"," ","G","C","O","D","E">>

\* ------------------------------------------------------------------------
\* POST /api/webhooks/shopify/orders/create
\* ------------------------------------------------------------------------

MaxItems == 2
MaxNow == 5

\* The rows of the Mapping table: Scenario A (P1, V1), whose legacy name
\* repeats its one file; a product-level row with two files; a skipped
\* product.  P2 has no row.
PipelineRows ==
  {Row(1, "P1", "V1", <<WidgetGcode>>, FALSE),
   Row(2, "P1", NULL, <<Part01Gcode, GhostStl>>, FALSE),
   Row(3, "P3", NULL, <<WidgetGcode>>, TRUE)}

Ghost == <<"G","h","o","s","t">>

\* Every file is found; Part-01.gcode only by its base name.
CatalogAll ==
  (WidgetGcode :> SearchOk(<<File("F7", <<"W","i","d","g","e","t">>, Gcode)>>))
  @@ (Part01Gcode :> SearchOk(<<File("F3", Part01, Stl)>>))
  @@ (Part01 :> SearchOk(<<File("F3", Part01, Stl), File("F1", Part01, Gcode)>>))
  @@ (Ghost :> SearchOk(<<File("F9", Ghost, Stl)>>))

\* Ghost.stl is missing and the search for "Part-01.gcode" fails; the
\* search for "Part-01" would find the file.
CatalogPartial ==
  (WidgetGcode :> SearchOk(<<File("F7", <<"W","i","d","g","e","t">>, Gcode)>>))
  @@ (Part01Gcode :> SearchFailed)
  @@ (Part01 :> SearchOk(<<File("F1", Part01, Gcode)>>))

Catalogs == {CatalogAll, CatalogPartial}

\* A row the operator endpoints leave: created skip-only, then set to
\* skipQueue=false by an update that carries no files.
UnfiledRow ==
  [Row(4, "P4", NULL, <<>>, FALSE) EXCEPT !.simplyprintFileNames = JsonNull]


\* The file lists of the rows above and the resolutions of their names,
\* computed once.
FilesOfRows == [m \in PipelineRows \cup {UnfiledRow} |-> normalizeMappingFiles(m)]

\* the effective file list taken from its end
FilesOf_Reversed(mapping) ==
  [k \in 1..Len(FilesOfRows[mapping]) |->
     FilesOfRows[mapping][Len(FilesOfRows[mapping]) + 1 - k]]

FilesOf(mapping) == FilesOfRows[mapping]

RowNames == UNION {Range(FilesOfRows[m]) : m \in PipelineRows}

\* fileName of the body of POST /api/unmatched/:id/queue
QueueFileNames == {WidgetGcode, WidgetPadded}

Resolutions ==
  [c \in Catalogs |->
     [n \in RowNames \cup QueueFileNames |-> resolveSimplyPrintFileId(c, n)]]

ResolveFileId(cat, fileName) == Resolutions[cat][fileName]

\* The body of addToSimplyPrintQueue, given the answers of its two awaited
\* lookups.
\* file is what resolveSimplyPrintFileId answers and g what getQueueGroupId
\* answers when the call is reached.
QueueItem(file, g, amount, world) ==
  LET none == [outcome |-> "noenv", searches |-> <<>>, calls |-> <<>>,
               group |-> <<>>, posted |-> <<>>, cache |-> world.cache]
  IN IF ~world.envOk THEN none
     ELSE IF file.outcome # "ok"
     THEN [none EXCEPT !.outcome = file.outcome, !.searches = file.searches]
     ELSE IF ~g.ok
     THEN [none EXCEPT !.outcome = "grouperror", !.searches = file.searches,
                       !.calls = g.calls]
     ELSE [outcome  |-> IF world.submitOk THEN "queued" ELSE "submiterror",
           searches |-> file.searches,
           calls    |-> g.calls,
           group    |-> <<g.id>>,
           posted   |-> <<[filesystem |-> file.id, amount |-> amount,
                           group |-> g.id]>>,
           cache    |-> g.cache]

\* addToSimplyPrintQueue(fileName, amount) in the environment world:
\* [envOk, cat, cache, now, setting, settingOk, groupsResp, submitOk].
\* The result: the outcome, the searches and group calls made, the body
\* posted to /queue/AddItem (<<>> when none was posted), the cache after.
addToSimplyPrintQueue(fileName, amount, world) ==
  QueueItem(ResolveFileId(world.cat, fileName),
            getQueueGroupId(world.cache, world.now, world.setting,
                            world.settingOk, world.groupsResp),
            amount, world)

GroupResponses ==
  {GroupsFailed,
   GroupsOk(<<>>),
   GroupsOk(<<[id |-> 8, name |-> Other], [id |-> 7, name |-> SHOPIFY]>>)}

Item(productId, variantId, quantity, sku) ==
  [product_id |-> productId, variant_id |-> variantId,
   quantity |-> quantity, sku |-> sku]

\* quantity is <<>> when the line item has none
PayloadItems ==
  {Item(NULL, "V1", <<1>>, NULL),
   Item("P1", "V1", <<3>>, "SKU-1"),
   Item("P1", "V2", <<>>, NULL),
   Item("P2", NULL, <<2>>, NULL),
   Item("P3", "V1", <<1>>, NULL)}

\* The request bodies: no JSON, or an order with or without id and name,
\* whose line_items is an array or not.
Bodies ==
  {[json |-> "invalid"]}
  \cup {[json |-> "object", id |-> o[1], name |-> o[2],
         line_items |-> [array |-> a, items |-> items]] :
          o \in {<<NULL, NULL>>, <<"1001", "#1001">>},
          a \in BOOLEAN,
          items \in SeqsUpTo(PayloadItems, MaxItems)}

\* The requests: the header X-Shopify-Hmac-Sha256 equals the HMAC of the
\* body or not; raw: express.raw buffered the body (the Content-Type is
\* application/json).  Without it req.body is no Buffer and holds no JSON.
Requests ==
  [sigOk : BOOLEAN, raw : {TRUE}, body : Bodies]
  \cup {[sigOk |-> FALSE, raw |-> FALSE, body |-> [json |-> "invalid"]]}

\* A row of the UnmatchedLineItem table left by an earlier order.
EarlierRows ==
  <<[id |-> 1, orderId |-> "900", orderName |-> "#900",
     shopifyProductId |-> "P2", shopifyVariantId |-> NULL, sku |-> NULL,
     quantity |-> 1, reason |-> "No mapping found", queuedAt |-> <<>>,
     createdAt |-> 0]>>

\* The configurations the server is started in: credentials of the print
\* service set or not, webhook secret set or not, the catalog, the
\* queue-group setting (no row, "0", "5").
\* The UnmatchedLineItem table holds the rows of orders received earlier
\* in the second of them.
Worlds ==
  {[envOk |-> TRUE,  secret |-> TRUE,  cat |-> CatalogAll,     setting |-> <<>>,
    unmatched |-> <<>>],
   [envOk |-> TRUE,  secret |-> FALSE, cat |-> CatalogPartial, setting |-> <<0>>,
    unmatched |-> EarlierRows],
   [envOk |-> TRUE,  secret |-> TRUE,  cat |-> CatalogAll,     setting |-> <<5>>,
    unmatched |-> <<>>],
   [envOk |-> FALSE, secret |-> FALSE, cat |-> CatalogAll,     setting |-> <<>>,
    unmatched |-> <<>>]}

Init ==
  /\ FnUnused
  /\ HandlerIdle
  /\ mappings = PipelineRows
  /\ \E w \in Worlds :
       /\ unmatched = w.unmatched
       /\ catalog = w.cat
       /\ envOk = w.envOk
       /\ webhookSecret = w.secret
       /\ setting = w.setting
  /\ requests = <<>>

\* an outer catch that reports the failure
CatchResponse_500 == [status |-> 500, body |-> "error"]

\* the response of the outer catch
CatchResponse == [status |-> 200, body |-> "error"]

\* Number(item?.quantity ?? 1)
QuantityOf(item) == IF item.quantity = <<>> THEN 1 ELSE item.quantity[1]

\* String(item?.product_id) without the default: "null" for null
ProductIdOf_NoDefault(item) == item.product_id

\* String(item?.product_id ?? "")
ProductIdOf(item) == IF item.product_id = NULL THEN "" ELSE item.product_id

\* a loop that does not look at skipQueue
SkipsQueue_Never(mapping) == FALSE

\* the skipQueue test of the line-item loop
SkipsQueue(mapping) == mapping.skipQueue

\* a create that writes over the newest row of the table
CreateUnmatched_Overwrite(table, row) ==
  IF table = <<>> THEN <<row>> ELSE [table EXCEPT ![Len(table)] = row]

\* prisma.unmatchedLineItem.create: the table with the new row
CreateUnmatched(table, row) == Append(table, row)

\* the row recordUnmatchedLineItem creates
UnmatchedRow(id, item, reason) ==
  [id |-> id, orderId |-> order.orderId, orderName |-> order.orderName,
   shopifyProductId |-> ProductIdOf(item),
   shopifyVariantId |-> item.variant_id,
   sku |-> item.sku, quantity |-> QuantityOf(item),
   reason |-> reason, queuedAt |-> <<>>, createdAt |-> now]

\* The handler gives up: an exception reached the outer catch.
Abort(events) ==
  /\ res' = CatchResponse
  /\ pc' = "done"
  /\ log' = log \o events
  /\ UNCHANGED <<unmatched, signature, order, itemIdx, filesToQueue, fileIdx>>

\* The signature check and the parse of the body.  createHmac(...).update
\* throws on a body that is no Buffer; the outer catch answers.
WebhookReceive ==
  /\ pc = "idle"
  /\ \E request \in Requests :
       /\ signature' = IF ~webhookSecret THEN "unchecked"
                       ELSE IF ~request.raw THEN "threw"
                       ELSE IF request.sigOk THEN "valid" ELSE "invalid"
       /\ IF webhookSecret /\ ~request.raw
          THEN /\ res' = CatchResponse
               /\ pc' = "done"
               /\ UNCHANGED <<order, itemIdx>>
          ELSE IF webhookSecret /\ ~request.sigOk
          THEN /\ res' = [status |-> 401, body |-> "Invalid webhook signature"]
               /\ pc' = "done"
               /\ UNCHANGED <<order, itemIdx>>
          ELSE IF request.body.json = "invalid"
          THEN /\ res' = CatchResponse
               /\ pc' = "done"
               /\ UNCHANGED <<order, itemIdx>>
          ELSE /\ order' =
                    [orderId   |-> IF request.body.id = NULL THEN ""
                                   ELSE request.body.id,
                     orderName |-> request.body.name,
                     lineItems |-> IF request.body.line_items.array
                                   THEN request.body.line_items.items
                                   ELSE <<>>]
               /\ itemIdx' = 1
               /\ pc' = "items"
               /\ UNCHANGED res
  /\ UNCHANGED <<fnVars, worldVars, unmatched, cache, now, filesToQueue,
                 fileIdx, log>>

\* The next line item, or the answer when there is none.
NextItem(events) ==
  /\ itemIdx' = itemIdx + 1
  /\ pc' = "items"
  /\ log' = log \o events
  /\ UNCHANGED <<signature, order, res>>

\* One pass of the line-item loop up to the file loop.
WebhookItem ==
  /\ pc = "items"
  /\ UNCHANGED <<fnVars, worldVars, cache, now>>
  /\ IF itemIdx > Len(order.lineItems)
     THEN /\ res' = [status |-> 200, body |-> "ok"]
          /\ pc' = "done"
          /\ UNCHANGED <<unmatched, signature, order, itemIdx, filesToQueue,
                         fileIdx, log>>
     ELSE LET item      == order.lineItems[itemIdx]
              productId == ProductIdOf(item)
              variantId == item.variant_id
          IN IF productId = ""
             THEN /\ NextItem(<<[kind |-> "noproduct", item |-> itemIdx]>>)
                  /\ UNCHANGED <<unmatched, filesToQueue, fileIdx>>
             ELSE \E dbOk \in BOOLEAN, recordOk \in BOOLEAN :
                  \E mapping \in findMapping(mappings, productId, variantId) :
                    LET found == [kind |-> "find", item |-> itemIdx,
                                  ok |-> dbOk, mapping |-> mapping]
                        rec   == UnmatchedRow(Len(unmatched) + 1, item,
                                              "No mapping found")
                        made  == [kind |-> "record", item |-> itemIdx,
                                  ok |-> recordOk, row |-> rec]
                    IN IF ~dbOk
                       THEN Abort(<<[found EXCEPT !.mapping = NoRow]>>)
                       ELSE IF mapping = NoRow
                       THEN IF order.orderId = ""
                            THEN /\ NextItem(<<found>>)
                                 /\ UNCHANGED <<unmatched, filesToQueue, fileIdx>>
                            ELSE IF recordOk
                            THEN /\ unmatched' = CreateUnmatched(unmatched, rec)
                                 /\ NextItem(<<found, made>>)
                                 /\ UNCHANGED <<filesToQueue, fileIdx>>
                            ELSE Abort(<<found, made>>)
                       ELSE IF SkipsQueue(mapping) \/ FilesOf(mapping) = <<>>
                       THEN /\ NextItem(<<found>>)
                            /\ UNCHANGED <<unmatched, filesToQueue, fileIdx>>
                       ELSE /\ filesToQueue' = FilesOf(mapping)
                            /\ fileIdx' = 1
                            /\ pc' = "files"
                            /\ log' = Append(log, found)
                            /\ UNCHANGED <<unmatched, signature, order,
                                           itemIdx, res>>

\* a file loop that tries a failed file a second time
AfterFile_RetryOnce(k, n, failed) ==
  IF failed /\ \A p \in 1..Len(log) :
                 ~(log[p].kind = "attempt" /\ log[p].item = itemIdx
                   /\ log[p].file = filesToQueue[k])
  THEN [pc |-> "files", fileIdx |-> k, step |-> 0]
  ELSE IF k < n THEN [pc |-> "files", fileIdx |-> k + 1, step |-> 0]
  ELSE [pc |-> "items", fileIdx |-> 0, step |-> 1]

\* a file loop that a failed file ends
AfterFile_StopOnFailure(k, n, failed) ==
  IF k < n /\ ~failed THEN [pc |-> "files", fileIdx |-> k + 1, step |-> 0]
  ELSE [pc |-> "items", fileIdx |-> 0, step |-> 1]

\* Where the file loop goes after the file at position k of n, queued or
\* failed and recorded.
AfterFile(k, n, failed) ==
  IF k < n THEN [pc |-> "files", fileIdx |-> k + 1, step |-> 0]
  ELSE [pc |-> "items", fileIdx |-> 0, step |-> 1]

\* One pass of the file loop: addToSimplyPrintQueue and its catch.
WebhookFile ==
  /\ pc = "files"
  /\ UNCHANGED <<fnVars, worldVars, now, signature>>
  /\ \E settingOk \in BOOLEAN, groupsResp \in GroupResponses,
        submitOk \in BOOLEAN, recordOk \in BOOLEAN :
       LET item     == order.lineItems[itemIdx]
           fileName == filesToQueue[fileIdx]
           world    == [envOk |-> envOk, cat |-> catalog, cache |-> cache,
                        now |-> now, setting |-> setting,
                        settingOk |-> settingOk, groupsResp |-> groupsResp,
                        submitOk |-> submitOk]
       IN
       \E r \in {addToSimplyPrintQueue(fileName, QuantityOf(item), world)} :
       LET failed   == r.outcome # "queued"
           attempt  == [kind |-> "attempt", item |-> itemIdx,
                        file |-> fileName, outcome |-> r.outcome,
                        searches |-> r.searches, calls |-> r.calls,
                        group |-> r.group, posted |-> r.posted]
           rec      == UnmatchedRow(Len(unmatched) + 1, item, "Queueing failed")
           made     == [kind |-> "record", item |-> itemIdx,
                        ok |-> recordOk, row |-> rec]
           next     == AfterFile(fileIdx, Len(filesToQueue), failed)
       IN /\ cache' = r.cache
          /\ IF failed /\ order.orderId # "" /\ ~recordOk
             THEN Abort(<<attempt, made>>)
             ELSE /\ unmatched' = IF failed /\ order.orderId # ""
                                  THEN CreateUnmatched(unmatched, rec)
                                  ELSE unmatched
                  /\ log' = log \o (IF failed /\ order.orderId # ""
                                    THEN <<attempt, made>> ELSE <<attempt>>)
                  /\ pc' = next.pc
                  /\ fileIdx' = next.fileIdx
                  /\ itemIdx' = itemIdx + next.step
                  /\ UNCHANGED <<order, filesToQueue, res>>

\* Time passes while the handler awaits a call.  Date.now() is read only
\* by getQueueGroupId, inside the file loop, and compared only with the
\* time of a cached entry.
Elapse ==
  /\ pc = "files"
  /\ cache.id # <<>>
  /\ now + TTL <= MaxNow
  /\ now' = now + TTL
  /\ UNCHANGED <<fnVars, worldVars, unmatched, cache, pc, signature, order,
                 itemIdx, filesToQueue, fileIdx, res, log>>

Next ==
  \/ WebhookReceive
  \/ WebhookItem
  \/ WebhookFile
  \/ Elapse

Spec == Init /\ [][Next]_vars

\* ------------------------------------------------------------------------
\* normalizeMappingFiles applied to bounded Mapping rows
\* ------------------------------------------------------------------------

MaxFiles == 2

NamePool ==
  {WidgetGcode, widgetGcodeLower, WIDGETGCODE, WidgetPadded,
   CafeAccent, cafePlain, Dashes, Blank}

FilesInit ==
  /\ WorldUnused
  /\ HandlerStart
  /\ arg \in [simplyprintFileNames :
                {JsonNull, JsonScalar, JsonInvalid}
                  \cup {JsonArray(fs) : fs \in SeqsUpTo(NamePool, MaxFiles)},
              simplyprintFileName : NamePool \cup {NoName, <<>>}]
  /\ ret = <<>>
  /\ called = FALSE

CallNormalizeMappingFiles ==
  /\ ~called
  /\ ret' = normalizeMappingFiles(arg)
  /\ called' = TRUE
  /\ UNCHANGED <<arg, worldVars, handlerVars>>

FilesNext == CallNormalizeMappingFiles

SpecFiles == FilesInit /\ [][FilesNext]_vars

\* ------------------------------------------------------------------------
\* findMapping applied to bounded Mapping tables
\* ------------------------------------------------------------------------

\* Two products, their product-level rows, rows of two variants, and a
\* second row of one (product, variant) pair.
FindRowPool ==
  {Row(1, "P1", NULL, <<WidgetGcode>>, FALSE),
   Row(2, "P1", "V1", <<Part01Gcode>>, FALSE),
   Row(3, "P1", "V2", <<GhostStl>>, FALSE),
   Row(4, "P2", NULL, <<cafePlain>>, TRUE),
   Row(5, "P2", "V1", <<WidgetGcode>>, FALSE),
   Row(6, "P1", "V1", <<cafePlain>>, FALSE)}

FindInit ==
  /\ WorldUnused
  /\ HandlerStart
  /\ arg \in [rows : SUBSET FindRowPool,
              productId : {"P1", "P2"},
              variantId : {NULL, "V1", "V2"}]
  /\ ret = NoRow
  /\ called = FALSE

CallFindMapping ==
  /\ ~called
  /\ ret' \in findMapping(arg.rows, arg.productId, arg.variantId)
  /\ called' = TRUE
  /\ UNCHANGED <<arg, worldVars, handlerVars>>

FindNext == CallFindMapping

SpecFind == FindInit /\ [][FindNext]_vars

HasRow(rows, productId, variantId) ==
  \E m \in rows : /\ m.shopifyProductId = productId
                  /\ m.shopifyVariantId = variantId

\* C7: when a variant-level row (productId, variantId) and a
\* product-level row (productId, null) both exist, resolve(productId,
\* variantId) returns the variant-level row.
C7_VariantLevelWins ==
  (/\ called
   /\ arg.variantId # NULL
   /\ HasRow(arg.rows, arg.productId, arg.variantId)
   /\ HasRow(arg.rows, arg.productId, NULL))
  => /\ ret \in arg.rows
     /\ ret.shopifyProductId = arg.productId
     /\ ret.shopifyVariantId = arg.variantId

C7_Witness ==
  /\ called
  /\ arg.variantId = "V1"
  /\ HasRow(arg.rows, arg.productId, "V1")
  /\ HasRow(arg.rows, arg.productId, NULL)
  /\ HasRow(arg.rows, arg.productId, "V2")
  /\ ret # NoRow
  /\ ret.shopifyVariantId = "V1"

\* C8: resolve(productId, variantId) returns the product-level row when no
\* row of the exact pair exists or variantId is absent; it returns
\* NotFound exactly when neither the exact nor the product-level row
\* exists; a row of another variant or of another product is never
\* returned.
C8_FallbackAndNotFound ==
  called =>
    /\ ((arg.variantId = NULL \/ ~HasRow(arg.rows, arg.productId, arg.variantId))
         /\ HasRow(arg.rows, arg.productId, NULL))
       => (/\ ret \in arg.rows
           /\ ret.shopifyProductId = arg.productId
           /\ ret.shopifyVariantId = NULL)
    /\ (ret = NoRow) <=>
         (/\ ~HasRow(arg.rows, arg.productId, arg.variantId)
          /\ ~HasRow(arg.rows, arg.productId, NULL))
    /\ ret # NoRow =>
         /\ ret \in arg.rows
         /\ ret.shopifyProductId = arg.productId
         /\ ret.shopifyVariantId \in {arg.variantId, NULL}

C8_Witness ==
  /\ called
  /\ arg.variantId = "V2"
  /\ ~HasRow(arg.rows, arg.productId, "V2")
  /\ HasRow(arg.rows, arg.productId, "V1")
  /\ HasRow(arg.rows, arg.productId, NULL)
  /\ \E m \in arg.rows : m.shopifyProductId # arg.productId
  /\ ret # NoRow
  /\ ret.shopifyVariantId = NULL

\* ------------------------------------------------------------------------
\* resolveSimplyPrintFileId applied to bounded catalogs
\* ------------------------------------------------------------------------

MaxHits == 2

\* Files named Part-01.gcode, "PART 01 GCODE" (no extension) and
\* Part-01.stl.
CandidatePool ==
  {File("F1", Part01, Gcode), File("F2", PART01GCODE, NoName),
   File("F3", Part01, Stl)}

Responses ==
  {SearchFailed} \cup {SearchOk(fs) : fs \in SeqsUpTo(CandidatePool, MaxHits)}

ResolveNames == {Part01Gcode, Part01, Blank}

\* The query variants of the claim: the trimmed name, the name without
\* its extension, the normalized tokens of the base name longer than 2.
QueryVariants(fileName) ==
  LET trimmed == Trim(fileName)
      dot     == LastIndexOf(trimmed, ".")
      base    == IF dot > 0 THEN SubSeq(trimmed, 1, dot - 1) ELSE trimmed
  IN <<trimmed, base>>
       \o SelectSeq(Split(normalizeText(base)), LAMBDA t : Len(t) > 2)

ResolveInit ==
  /\ WorldUnused
  /\ HandlerStart
  /\ arg \in UNION {[fileName : {n},
                     cat : [Range(QueryVariants(n)) \ {<<>>} -> Responses]]
                     : n \in ResolveNames}
  /\ ret = [outcome |-> "notfound", id |-> NULL, searches |-> <<>>]
  /\ called = FALSE

CallResolveFileId ==
  /\ ~called
  /\ ret' = resolveSimplyPrintFileId(arg.cat, arg.fileName)
  /\ called' = TRUE
  /\ UNCHANGED <<arg, worldVars, handlerVars>>

ResolveNext == CallResolveFileId

SpecResolve == ResolveInit /\ [][ResolveNext]_vars

\* The catalog answers query q with a list that holds an exact match.
AnswersWithMatch(cat, q, fileName) ==
  /\ q \in DOMAIN cat
  /\ ~cat[q].err
  /\ \E i \in 1..Len(cat[q].files) :
        LET f == cat[q].files[i]
        IN \/ normalizeText(FullName(f)) = normalizeText(fileName)
           \/ normalizeText(f.name) = normalizeText(fileName)

\* Every search before the first matching variant is answered.
AnsweredUpToMatch(cat, fileName) ==
  LET vs == QueryVariants(fileName)
  IN \E k \in 1..Len(vs) :
       /\ AnswersWithMatch(cat, vs[k], fileName)
       /\ \A j \in 1..(k-1) : vs[j] \in DOMAIN cat => ~cat[vs[j]].err

\* C10: resolveFileId succeeds whenever one of its query variants makes
\* the catalog return a candidate whose normalized full name or bare name
\* equals the normalized target, also when the earlier variants are
\* answered without a match; and the id it returns is that of an exactly
\* matching candidate.
C10_LaterVariantMatches ==
  called =>
    /\ AnsweredUpToMatch(arg.cat, arg.fileName) => ret.outcome = "ok"
    /\ ret.outcome = "ok" =>
         \E q \in DOMAIN arg.cat :
           /\ ~arg.cat[q].err
           /\ \E i \in 1..Len(arg.cat[q].files) :
                LET f == arg.cat[q].files[i]
                IN /\ f.id = ret.id
                   /\ \/ normalizeText(FullName(f)) = normalizeText(arg.fileName)
                      \/ normalizeText(f.name) = normalizeText(arg.fileName)

\* Scenario D: only the search for the base name "Part-01" returns the
\* file; the search for "Part-01.gcode" returns a similar file.
C10_Witness ==
  /\ called
  /\ arg.fileName = Part01Gcode
  /\ arg.cat[Part01Gcode] = SearchOk(<<File("F3", Part01, Stl)>>)
  /\ arg.cat[Part01] = SearchOk(<<File("F3", Part01, Stl), File("F1", Part01, Gcode)>>)
  /\ ret.outcome = "ok"
  /\ ret.id = "F1"
  /\ ret.searches = <<Part01Gcode, Part01>>

\* ------------------------------------------------------------------------
\* normalizeMappingFiles: the claim
\* ------------------------------------------------------------------------

\* The structured list followed by the legacy name, as stored (a name
\* that is empty or only white space is no name).
MergedStored(m) ==
  SelectSeq(
    (IF m.simplyprintFileNames.json = "array"
     THEN m.simplyprintFileNames.items ELSE <<>>)
    \o (IF m.simplyprintFileName = NoName THEN <<>>
        ELSE <<m.simplyprintFileName>>),
    LAMBDA n : Trim(n) # <<>>)

\* The index of the first element of list with the normalized form key.
FirstIdx(list, key) ==
  CHOOSE i \in 1..Len(list) :
    /\ normalizeText(list[i]) = key
    /\ \A j \in 1..(i-1) : normalizeText(list[j]) # key

\* result is list reduced to the first occurrence of each normalized form.
IsFirstOccurrenceReduction(result, list) ==
  /\ \A i, j \in 1..Len(result) :
        i # j => normalizeText(result[i]) # normalizeText(result[j])
  /\ \A k \in 1..Len(list) :
        \E i \in 1..Len(result) :
          normalizeText(result[i]) = normalizeText(list[k])
  /\ \A i \in 1..Len(result) :
        /\ \E k \in 1..Len(list) : normalizeText(list[k]) = normalizeText(result[i])
        /\ result[i] = list[FirstIdx(list, normalizeText(result[i]))]
  /\ \A i, j \in 1..Len(result) :
        i < j => FirstIdx(list, normalizeText(result[i]))
                   < FirstIdx(list, normalizeText(result[j]))

WidgetExample ==
  [simplyprintFileNames |-> JsonArray(<<WidgetGcode, widgetGcodeLower>>),
   simplyprintFileName |-> WIDGETGCODE]

\* C9 as stated: the effective file list is the stored structured list
\* followed by the legacy name, reduced to the first occurrence of each
\* normalized name, in the stored order and the stored spelling.
C9_AsStated ==
  called => IsFirstOccurrenceReduction(ret, MergedStored(arg))

Trimmed(list) == [i \in 1..Len(list) |-> Trim(list[i])]

\* C9 (amended): the effective file list is the stored structured list
\* followed by the legacy name, each name with its surrounding white
\* space trimmed, reduced to the first occurrence of each normalized
\* name: no two results share a normalized form, every stored name is
\* represented, the order is kept and each result has the trimmed
\* spelling of its first occurrence; structured ["Widget.gcode",
\* "widget.gcode"] with legacy "WIDGET.GCODE" gives ["Widget.gcode"].
C9_EffectiveFileList ==
  called =>
    /\ IsFirstOccurrenceReduction(ret, Trimmed(MergedStored(arg)))
    /\ (arg = WidgetExample => ret = <<WidgetGcode>>)

C9_Witness ==
  /\ called
  /\ arg = WidgetExample
  /\ ret = <<WidgetGcode>>

\* ------------------------------------------------------------------------
\* The webhook handler: the claims
\* ------------------------------------------------------------------------

\* What the handler logged for line item i.
Attempts(i) == SelectSeq(log, LAMBDA e : e.kind = "attempt" /\ e.item = i)
Records(i) == SelectSeq(log, LAMBDA e : e.kind = "record" /\ e.item = i)
Finds(i) == SelectSeq(log, LAMBDA e : e.kind = "find" /\ e.item = i)

\* The rows of the UnmatchedLineItem table created for line item i.
RowsOf(i) ==
  SelectSeq(Records(i), LAMBDA e : e.ok /\ e.row \in Range(unmatched))

HasProduct(i) == ProductIdOf(order.lineItems[i]) # ""

\* The rows the resolver may give line item i.
MappingsOf(i) ==
  findMapping(mappings, ProductIdOf(order.lineItems[i]),
              order.lineItems[i].variant_id)

\* The handler ran to its end: no exception of the persistence layer
\* reached the outer catch.
Finished == pc = "done" /\ res.status = 200 /\ res.body = "ok"

\* C1: for every line item with a product id whose Mapping has
\* skipQueue=false, a queue attempt is made for every file of its
\* effective file list, in order, whatever the outcome (not found, search
\* or submission error) of the attempts before it.
C1_EveryFileAttempted ==
  Finished =>
    \A i \in 1..Len(order.lineItems) :
      \A m \in MappingsOf(i) :
        (HasProduct(i) /\ m # NoRow /\ ~m.skipQueue)
        => LET done == Attempts(i)
           IN [k \in 1..Len(done) |-> done[k].file] = FilesOf(m)

C1_Witness ==
  /\ Finished
  /\ Len(order.lineItems) = 2
  /\ Len(Attempts(1)) = 2
  /\ Attempts(1)[1].outcome = "error"
  /\ Attempts(1)[2].outcome = "notfound"
  /\ Len(Attempts(2)) = 1
  /\ Attempts(2)[1].outcome = "queued"

\* C2: once the signature check has passed, the handler answers 200 for
\* every payload and every failure of a collaborator.
C2_AlwaysAcknowledged ==
  (pc = "done" /\ signature # "invalid") => res.status = 200

\* The record of a failed file could not be created.
C2_Witness ==
  /\ pc = "done"
  /\ signature = "valid"
  /\ res.status = 200
  /\ res.body = "error"
  /\ \E k \in 1..Len(log) : log[k].kind = "record" /\ ~log[k].ok
  /\ \E k \in 1..Len(log) : log[k].kind = "attempt" /\ log[k].outcome = "submiterror"

\* Line item i has no Mapping, or one of its files failed.
Failed(i) ==
  \/ MappingsOf(i) = {NoRow}
  \/ \E k \in 1..Len(Attempts(i)) : Attempts(i)[k].outcome # "queued"

\* C3: when an invocation has finished, every line item with a product id
\* that had no Mapping, or of which a file failed, has at least one
\* UnmatchedLineItem row, for every payload (also one without order id).
C3_FailuresRecorded ==
  Finished =>
    \A i \in 1..Len(order.lineItems) :
      (HasProduct(i) /\ Failed(i)) => Len(RowsOf(i)) >= 1

\* C4: a line item with a product id and no Mapping gets exactly one
\* UnmatchedLineItem row, with reason "No mapping found", and no catalog
\* search and no queue submission; the next line item is processed.
C4_NoMappingRecorded ==
  Finished =>
    \A i \in 1..Len(order.lineItems) :
      (HasProduct(i) /\ MappingsOf(i) = {NoRow})
      => /\ Len(RowsOf(i)) = 1
         /\ RowsOf(i)[1].row.reason = "No mapping found"
         /\ Attempts(i) = <<>>

\* C5: for a line item whose Mapping has skipQueue=true the handler makes
\* no catalog search and no queue submission and creates no
\* UnmatchedLineItem row, whatever files the Mapping holds.
C5_SkipQueueSilent ==
  \A i \in 1..Len(order.lineItems) :
    (/\ HasProduct(i)
     /\ \E m \in MappingsOf(i) : m # NoRow /\ m.skipQueue)
    => /\ Attempts(i) = <<>>
       /\ Records(i) = <<>>

C5_Witness ==
  /\ Finished
  /\ Len(order.lineItems) = 2
  /\ order.lineItems[1].product_id = "P3"
  /\ Len(Finds(1)) = 1
  /\ Finds(1)[1].mapping.skipQueue
  /\ Finds(1)[1].mapping.simplyprintFileNames.items # <<>>
  /\ Len(Attempts(2)) >= 1

\* Every call the handler made for line item i with Mapping m was
\* answered well: credentials set, every stored file in the catalog, the
\* group looked up, every submission accepted.
AllWell(i, m) ==
  /\ envOk
  /\ \A k \in 1..Len(Attempts(i)) :
       Attempts(i)[k].outcome \notin {"grouperror", "submiterror"}
  /\ \A n \in Range(MergedStored(m)) :
       ResolveFileId(catalog, Trim(n)).outcome = "ok"

\* C6: when all stored files of the Mapping (skipQueue=false) of a line
\* item with quantity q resolve and every call succeeds, the handler
\* posts exactly one submission per distinct normalized file name, each
\* with amount q and the group id getQueueGroupId returned, and creates
\* no UnmatchedLineItem row; files ["Widget.gcode"] with the same legacy
\* name give one submission.
C6_OneSubmissionPerFile ==
  pc = "done" =>
    \A i \in 1..Len(order.lineItems) :
      \A k \in 1..Len(Finds(i)) :
        LET m    == Finds(i)[k].mapping
            done == Attempts(i)
            keys == {normalizeText(n) : n \in Range(MergedStored(m))}
        IN (m # NoRow /\ ~m.skipQueue /\ AllWell(i, m))
           => /\ Len(done) = Cardinality(keys)
              /\ {normalizeText(done[j].file) : j \in 1..Len(done)} = keys
              /\ \A j \in 1..Len(done) :
                   /\ done[j].outcome = "queued"
                   /\ Len(done[j].posted) = 1
                   /\ done[j].posted[1].amount = QuantityOf(order.lineItems[i])
                   /\ done[j].posted[1].group = done[j].group[1]
                   /\ done[j].posted[1].filesystem
                        = ResolveFileId(catalog, done[j].file).id
              /\ Records(i) = <<>>
              /\ (m.simplyprintFileNames = JsonArray(<<WidgetGcode>>)
                    /\ m.simplyprintFileName = WidgetGcode
                  => Len(done) = 1)

\* Scenario A, followed by a line item with two files.
C6_Witness ==
  /\ pc = "done"
  /\ Len(order.lineItems) = 2
  /\ order.lineItems[1] = Item("P1", "V1", <<3>>, "SKU-1")
  /\ Len(Attempts(1)) = 1
  /\ Attempts(1)[1].posted = <<[filesystem |-> "F7", amount |-> 3, group |-> 7]>>
  /\ Attempts(1)[1].outcome = "queued"
  /\ Len(Attempts(2)) = 2
  /\ Attempts(2)[2].outcome = "queued"
  /\ unmatched = <<>>

\* ------------------------------------------------------------------------
\* getQueueGroupId and POST /api/settings/queue-group on a clock of minutes
\* ------------------------------------------------------------------------

MaxEvents == 3
MaxMinutes == 6

NoCache == [id |-> <<>>, at |-> 0]

\* groupId of the request body: rejected by the schema, or null (<<>>), or
\* a number.
GroupIdInputs ==
  {[valid |-> FALSE, value |-> <<>>]}
  \cup {[valid |-> TRUE, value |-> v] : v \in {<<>>, <<0>>, <<9>>}}

GroupInit ==
  /\ FnUnused
  /\ HandlerStart
  /\ mappings = {}
  /\ catalog = <<>>
  /\ envOk = TRUE
  /\ webhookSecret = FALSE
  /\ setting \in {<<>>, <<5>>}
  /\ requests = <<>>

\* One call of getQueueGroupId at the present minute.
CallGetQueueGroupId ==
  /\ Len(log) < MaxEvents
  /\ \E settingOk \in BOOLEAN, groupsResp \in GroupResponses :
     \E g \in {getQueueGroupId(cache, now, setting, settingOk, groupsResp)} :
       /\ cache' = g.cache
       /\ log' = Append(log, [kind |-> "group", at |-> now, before |-> cache,
                              row |-> setting,
                              ok |-> g.ok, id |-> g.id, calls |-> g.calls,
                              response |-> IF "groups" \in Range(g.calls)
                                           THEN <<groupsResp>> ELSE <<>>])
  /\ UNCHANGED <<fnVars, worldVars, unmatched, now, pc, signature, order,
                 itemIdx, filesToQueue, fileIdx, res>>

\* POST /api/settings/queue-group.  The delete swallows its failure; a
\* failed upsert and a body the schema rejects are answered 400 and change
\* nothing.  The log keeps the requests answered 200.
PostQueueGroup ==
  /\ Len(log) < MaxEvents
  /\ \E groupId \in GroupIdInputs, dbOk \in BOOLEAN :
       LET event == [kind |-> "settings", at |-> now,
                     groupId |-> groupId.value, dbOk |-> dbOk,
                     before |-> cache]
       IN IF ~groupId.valid
          THEN /\ res' = [status |-> 400, body |-> "error"]
               /\ UNCHANGED <<setting, cache, log>>
          ELSE IF groupId.value = <<>>
          THEN /\ setting' = IF dbOk THEN <<>> ELSE setting
               /\ cache' = NoCache
               /\ res' = [status |-> 200, body |-> "groupId"]
               /\ log' = Append(log, event @@ [after |-> NoCache])
          ELSE IF ~dbOk
          THEN /\ res' = [status |-> 400, body |-> "error"]
               /\ UNCHANGED <<setting, cache, log>>
          ELSE /\ setting' = groupId.value
               /\ cache' = [id |-> groupId.value, at |-> now]
               /\ res' = [status |-> 200, body |-> "groupId"]
               /\ log' = Append(log, event @@
                           [after |-> [id |-> groupId.value, at |-> now]])
  /\ UNCHANGED <<fnVars, mappings, catalog, envOk, webhookSecret, requests,
                 unmatched, now, pc, signature, order, itemIdx, filesToQueue,
                 fileIdx>>

\* A minute passes.
Tick ==
  /\ now < MaxMinutes
  /\ now' = now + 1
  /\ UNCHANGED <<fnVars, worldVars, unmatched, cache, pc, signature, order,
                 itemIdx, filesToQueue, fileIdx, res, log>>

GroupNext ==
  \/ CallGetQueueGroupId
  \/ PostQueueGroup
  \/ Tick

SpecGroup == GroupInit /\ [][GroupNext]_vars

\* The calls of getQueueGroupId in the log, and those that listed the groups.
IsGroupCall(i) == i \in 1..Len(log) /\ log[i].kind = "group"
Listed(i) == "groups" \in Range(log[i].calls)

\* The setting was read and the read was answered.
SettingAnswered(i) == log[i].calls # <<>> /\ (log[i].ok \/ Listed(i))

\* C11: a call of getQueueGroupId that finds a cached entry younger than
\* 5 minutes returns the cached id, leaves the cache as it is and reads
\* neither the setting nor the groups; a call that finds no entry or one of
\* 5 minutes or more reads the setting again.  With no override stored, of
\* two answered calls at most 4 minutes apart at most one lists the groups,
\* and a third call 6 minutes or more after the first lists them anew.
C11_CacheTTL ==
  /\ \A i \in 1..Len(log) :
       IsGroupCall(i) =>
         LET e == log[i]
             after == IF i = Len(log) THEN cache ELSE log[i + 1].before
         IN IF e.before.id # <<>> /\ e.at - e.before.at < 5
            THEN /\ e.ok
                 /\ e.id = e.before.id[1]
                 /\ e.calls = <<>>
                 /\ after = e.before
            ELSE /\ e.calls # <<>>
                 /\ e.calls[1] = "setting"
  /\ \A i \in 1..Len(log) :
       (/\ IsGroupCall(i) /\ IsGroupCall(i + 1)
        /\ log[i].row = <<>> /\ log[i + 1].row = <<>>
        /\ log[i].ok
        /\ log[i + 1].at - log[i].at <= 4)
       => /\ ~(Listed(i) /\ Listed(i + 1))
          /\ (/\ IsGroupCall(i + 2)
              /\ log[i + 2].row = <<>>
              /\ Listed(i)
              /\ log[i + 2].at - log[i].at >= 6
              /\ SettingAnswered(i + 2))
             => Listed(i + 2)

\* Scenario E: calls at minutes 0, 4 and 6 with no override; the first and
\* the third list the groups, the second is served from the cache.
C11_Witness ==
  /\ Len(log) = 3
  /\ \A i \in 1..3 : IsGroupCall(i) /\ log[i].row = <<>> /\ log[i].ok
  /\ log[1].at = 0 /\ log[2].at = 4 /\ log[3].at = 6
  /\ Listed(1) /\ ~Listed(2) /\ Listed(3)
  /\ log[2].id = log[1].id

IsSettingsChange(i) == i \in 1..Len(log) /\ log[i].kind = "settings"

\* C12: after a completed change of the queue-group setting the cache
\* holds no id and no timestamp, and a call of getQueueGroupId that comes
\* next reads the setting again and, when the new setting is a usable id,
\* returns that id.
C12_ChangeClearsCache ==
  \A i \in 1..Len(log) :
    IsSettingsChange(i) =>
      /\ log[i].after = NoCache
      /\ (IsGroupCall(i + 1) /\ log[i + 1].ok) =>
           /\ log[i + 1].calls # <<>>
           /\ (log[i + 1].row # <<>> /\ log[i + 1].row[1] # 0)
                => log[i + 1].id = log[i + 1].row[1]

\* ------------------------------------------------------------------------
\* GET /api/simplyprint/suggest applied to bounded catalogs
\* ------------------------------------------------------------------------

MaxResponse == 5

WidgetBlue == <<"W","i","d","g","e","t"," ","B","l","u","e">>
BluePadded == <<" ","B","l","u","e"," ">>
ShortWords == <<"a","b"," "," ","c">>
widget == <<"w","i","d","g","e","t">>
blue == <<"b","l","u","e">>

\* The files the search for "widget" can answer with, in its order.
WidgetFiles ==
  <<File("S1", <<"W","i","d","g","e","t"," ","B","l","u","e">>, <<>>),
    File("S2", <<"w","i","d","g","e","t">>, <<"g","c","o","d","e">>),
    File("S3", <<"B","l","u","e"," ","W","i","d","g","e","t">>, <<"s","t","l">>),
    File("S4", <<"w","i","d","g","e","t","-","b","l","u","e">>, <<"g","c","o","d","e">>),
    File("S5", <<"B","l","u","e">>, <<>>),
    File("S6", <<"w","i","d","g","e","t","s">>, <<>>)>>

\* The files the search for "blue" can answer with: the fourth of the
\* files above again, a file without id, a file that scores 0.
BlueFiles ==
  <<File("S4", <<"w","i","d","g","e","t","-","b","l","u","e">>, <<"g","c","o","d","e">>),
    File("S7", <<"W","I","D","G","E","T">>, <<"s","t","l">>),
    File("S9", <<"b","l","u","e">>, <<"g","c","o","d","e">>),
    File("S10", <<"W","i","d","g","e","t","_","B","l","u","e">>, <<"3","m","f">>),
    File(NULL, <<"b","l","u","e","w","i","d","g","e","t">>, <<>>),
    File("S8", <<"O","t","h","e","r">>, <<"g","c","o","d","e">>)>>

SuggestResponses(listed) ==
  {SearchFailed}
  \cup {SearchOk(Slice(listed, n)) : n \in 0..MaxResponse}

SuggestCatalogs ==
  {(widget :> w) @@ (blue :> b) :
     w \in SuggestResponses(WidgetFiles), b \in SuggestResponses(BlueFiles)}

SuggestInit ==
  /\ WorldUnused
  /\ HandlerStart
  /\ arg \in [query : {WidgetBlue, BluePadded, ShortWords},
              cat : SuggestCatalogs, env : BOOLEAN]
  /\ ret = [status |-> 0, files |-> <<>>]
  /\ called = FALSE

CallSuggest ==
  /\ ~called
  /\ ret' = suggest(arg.cat, arg.env, arg.query)
  /\ called' = TRUE
  /\ UNCHANGED <<arg, worldVars, handlerVars>>

SuggestNext == CallSuggest

SpecSuggest == SuggestInit /\ [][SuggestNext]_vars

\* The candidates in the order of discovery: the responses in the order of
\* the tokens of the query, each in its own order.
Candidates ==
  LET tokens == SuggestTokens(normalizeText(Trim(arg.query)))
  IN Flatten([k \in 1..Len(tokens) |-> Search(arg.cat, tokens[k]).files])

\* The place at which a returned entry was first discovered.
DiscoveredAt(item) ==
  LET at == {i \in 1..Len(Candidates) :
               FileKey(Candidates[i]) = FileKey(item)}
  IN CHOOSE i \in at : \A j \in at : i <= j

\* C13: the list suggest returns is sorted by score in descending order,
\* entries of equal score are in the order of their discovery, and the list
\* has at most 8 entries.
C13_SortedStableTruncated ==
  (called /\ ret.status = 200) =>
    /\ Len(ret.files) <= 8
    /\ \A i, j \in 1..Len(ret.files) :
         i < j =>
           /\ ret.files[i].score >= ret.files[j].score
           /\ ret.files[i].score = ret.files[j].score
                => DiscoveredAt(ret.files[i]) < DiscoveredAt(ret.files[j])

\* Nine candidates with a positive score were discovered, eight are
\* returned, with a tie among them and a tie cut by the limit.
C13_Witness ==
  /\ called /\ ret.status = 200
  /\ Len(ret.files) = 8
  /\ ret.files[1].score > ret.files[8].score
  /\ \E i \in 1..7 : ret.files[i].score = ret.files[i + 1].score
  /\ Cardinality({FileKey(Candidates[i]) : i \in
        {k \in 1..Len(Candidates) :
           scoreMatch(normalizeText(Trim(arg.query)),
                      FullName(Candidates[k])) > 0}}) > 8

\* ------------------------------------------------------------------------
\* normalizeText and scoreMatch applied to bounded strings
\* ------------------------------------------------------------------------

MaxLen == 3

\* Letters of both cases, a digit, a precomposed accented letter, a
\* combining accent, white space and punctuation.
Alphabet == {"a", "B", "1", "e_acute", "comb_acute", " ", "-"}

Texts == SeqsUpTo(Alphabet, MaxLen)

\* The queries scoreMatch is called with for a file name: the normalized
\* query of its callers, and strings that are not normalized.
QueriesFor(fileName) ==
  {normalizeText(fileName), fileName, <<"a">>, <<"a", " ", "1">>, <<>>}

TextInit ==
  /\ WorldUnused
  /\ HandlerStart
  /\ arg \in UNION {[fileName : {c}, query : QueriesFor(c)] : c \in Texts}
  /\ ret = [kind |-> "none", score |-> 0, text |-> <<>>]
  /\ called = FALSE

CallScoreMatch ==
  /\ ~called
  /\ ret' = [kind |-> "score", score |-> scoreMatch(arg.query, arg.fileName),
             text |-> <<>>]
  /\ called' = TRUE
  /\ UNCHANGED <<arg, worldVars, handlerVars>>

CallNormalizeText ==
  /\ ~called
  /\ ret' = [kind |-> "text", score |-> 0,
             text |-> normalizeText(arg.fileName)]
  /\ called' = TRUE
  /\ UNCHANGED <<arg, worldVars, handlerVars>>

TextNext ==
  \/ CallScoreMatch
  \/ CallNormalizeText

SpecText == TextInit /\ [][TextNext]_vars

\* C14: scoreMatch(q, c) is 0 when the normalized c is empty and 100 when
\* the normalized c is not empty and equals q; so scoreMatch(q, q) is 100
\* for every normalized q that is not empty.
C14_ExactMatchScores100 ==
  ret.kind = "score" =>
    /\ normalizeText(arg.fileName) = <<>> => ret.score = 0
    /\ (normalizeText(arg.fileName) # <<>>
        /\ normalizeText(arg.fileName) = arg.query) => ret.score = 100
    /\ (arg.fileName = arg.query /\ arg.query # <<>>
        /\ normalizeText(arg.query) = arg.query) => ret.score = 100

\* The name B, e with acute, 1 scored against its normalized form "be1".
C14_Witness ==
  /\ ret.kind = "score"
  /\ arg.fileName = <<"B", "e_acute", "1">>
  /\ arg.query = <<"b", "e", "1">>
  /\ ret.score = 100

\* The other case of a letter, the letter itself when it has none.
SwapCase(c) ==
  IF c \in DOMAIN UpperToLower THEN UpperToLower[c]
  ELSE IF \E u \in DOMAIN UpperToLower : UpperToLower[u] = c
  THEN CHOOSE u \in DOMAIN UpperToLower : UpperToLower[u] = c
  ELSE c

Punctuation == {" ", "-", "_"}

ReplaceAt(x, i, cs) == SubSeq(x, 1, i - 1) \o cs \o SubSeq(x, i + 1, Len(x))

\* The strings one step away from x: a letter in its other case; an accent
\* added to or taken from a character; a character of a run of
\* non-alphanumeric characters replaced by one of another kind, doubled, or
\* removed from a run of two or more.
Variants(x) ==
  {ReplaceAt(x, i, <<SwapCase(x[i])>>) : i \in 1..Len(x)}
  \cup {ReplaceAt(x, i, <<x[i], "comb_acute">>) : i \in 1..Len(x)}
  \cup {ReplaceAt(x, i, <<>>) : i \in {k \in 1..Len(x) : x[k] = "comb_acute"}}
  \cup {ReplaceAt(x, i, <<"e">>) : i \in {k \in 1..Len(x) : x[k] = "e_acute"}}
  \cup {ReplaceAt(x, i, <<p>>) :
          i \in {k \in 1..Len(x) : x[k] \in Punctuation}, p \in Punctuation}
  \cup {ReplaceAt(x, i, <<x[i], p>>) :
          i \in {k \in 1..Len(x) : x[k] \in Punctuation}, p \in Punctuation}
  \cup {ReplaceAt(x, i, <<>>) :
          i \in {k \in 1..(Len(x) - 1) :
                   x[k] \in Punctuation /\ x[k + 1] \in Punctuation}}

\* C15: normalizeText applied to its own result returns it unchanged, and
\* strings that differ only in the case of letters, in accents, or in the
\* kind and length of the runs of non-alphanumeric characters have the
\* same normalized form.
C15_NormalizeIdempotent ==
  ret.kind = "text" =>
    /\ normalizeText(ret.text) = ret.text
    /\ \A y \in Variants(arg.fileName) : normalizeText(y) = ret.text

\* B, "-", e with acute is normalized to "b e", as are its variants with
\* a lower-case b, with the run "-_", and with a plain e.
C15_Witness ==
  /\ ret.kind = "text"
  /\ arg.fileName = <<"B", "-", "e_acute">>
  /\ ret.text = <<"b", " ", "e">>
  /\ <<"b", "-", "e_acute">> \in Variants(arg.fileName)
  /\ <<"B", "-", "_", "e_acute">> \in Variants(arg.fileName)
  /\ <<"B", "-", "e">> \in Variants(arg.fileName)

\* C17: one invocation creates at most one UnmatchedLineItem row for a
\* line item, also when several files of its Mapping fail.
C17_OneRecordPerLineItem ==
  \A i \in 1..Len(order.lineItems) : Len(RowsOf(i)) <= 1

\* C18: a step of the webhook handler leaves the Mapping table as it is
\* and leaves every row of the UnmatchedLineItem table in its place and
\* unchanged; it can only append rows.
C18_PipelineAppendsOnly ==
  [][/\ mappings' = mappings
     /\ Len(unmatched') >= Len(unmatched)
     /\ SubSeq(unmatched', 1, Len(unmatched)) = unmatched]_vars

\* A row of an earlier order is in the table, and the invocation appended
\* two rows behind it.
C18_Witness ==
  /\ pc = "done"
  /\ Len(unmatched) = 3
  /\ unmatched[1] = EarlierRows[1]
  /\ unmatched[3].orderId = "1001"

\* ------------------------------------------------------------------------
\* The operator's endpoints: POST /api/mappings, POST /api/unmatched/:id/queue
\* and DELETE /api/unmatched/:id, their awaited steps interleaved
\* ------------------------------------------------------------------------

MaxRequests == 2

\* Two rows the webhook handler left in the UnmatchedLineItem table.
OpsRows ==
  <<[id |-> 1, orderId |-> "1001", orderName |-> "#1001",
     shopifyProductId |-> "P1", shopifyVariantId |-> NULL, sku |-> NULL,
     quantity |-> 2, reason |-> "No mapping found", queuedAt |-> <<>>,
     createdAt |-> 0],
    [id |-> 2, orderId |-> "1001", orderName |-> "#1001",
     shopifyProductId |-> "P1", shopifyVariantId |-> "V1", sku |-> NULL,
     quantity |-> 1, reason |-> "Queueing failed", queuedAt |-> <<>>,
     createdAt |-> 0]>>

\* The value of skipQueue in a row created without it: the default of the
\* column.
DefaultSkipQueue == FALSE

PairTaken(table, productId, variantId) ==
  \E m \in table : /\ m.shopifyProductId = productId
                   /\ m.shopifyVariantId = variantId

NextMappingId(table) ==
  1 + Cardinality(table)

\* a Mapping table without a key on the pair
CreateMapping_NoKey(table, data) ==
  [ok |-> TRUE, table |-> table \cup {data @@ [id |-> NextMappingId(table)]}]

\* prisma.mapping.create on a table keyed by (shopifyProductId,
\* shopifyVariantId): the create of a pair that has a row is refused.
CreateMapping(table, data) ==
  IF PairTaken(table, data.shopifyProductId, data.shopifyVariantId)
  THEN [ok |-> FALSE, table |-> table]
  ELSE [ok |-> TRUE,
        table |-> table \cup {data @@ [id |-> NextMappingId(table)]}]

\* prisma.mapping.update({ where: { id }, data }): refused when no row has
\* the id.
UpdateMapping(table, id, data) ==
  IF \E m \in table : m.id = id
  THEN [ok |-> TRUE,
        table |-> {IF m.id = id THEN data @@ m ELSE m : m \in table}]
  ELSE [ok |-> FALSE, table |-> table]

\* prisma.unmatchedLineItem.findUnique({ where: { id } })
FindUnmatched(table, id) == SelectSeq(table, LAMBDA r : r.id = id)

\* a request of the operator before its first step
NewRequest(kind) ==
  [kind |-> kind, pc |-> "start", status |-> 0, id |-> 0,
   productId |-> "", variantId |-> NULL, files |-> <<>>, skipQueue |-> <<>>,
   fileName |-> <<>>, saveMapping |-> FALSE, item |-> <<>>,
   existing |-> NoRow]

Respond(k, status) ==
  requests' = [requests EXCEPT ![k].pc = "done", ![k].status = status]

opsFrame == <<fnVars, catalog, envOk, webhookSecret, setting, now, pc,
              signature, order, itemIdx, filesToQueue, fileIdx, res>>

OpsInit ==
  /\ FnUnused
  /\ HandlerIdle
  /\ unmatched = OpsRows
  /\ mappings = {}
  /\ catalog = CatalogAll
  /\ envOk = TRUE
  /\ webhookSecret = FALSE
  /\ setting = <<>>
  /\ requests = <<>>

\* fileNames of the request bodies, before the filter of blank names
FileNameInputs == {<<>>, <<WidgetGcode>>, <<Blank>>}

\* POST /api/mappings up to its first await: the body is parsed, blank
\* names are dropped, and the row of the pair is looked up.
PostMappingFind ==
  /\ Len(requests) < MaxRequests
  /\ \E variantId \in {NULL, "V1"}, fileNames \in FileNameInputs,
        skipQueue \in {<<>>, <<TRUE>>, <<FALSE>>} :
     \E existing \in findFirstMapping(mappings, "P1", variantId) :
       requests' = Append(requests,
         [NewRequest("mapping") EXCEPT
            !.pc = "write", !.productId = "P1", !.variantId = variantId,
            !.files = SelectSeq(fileNames, LAMBDA n : Len(Trim(n)) > 0),
            !.skipQueue = skipQueue, !.existing = existing])
  /\ UNCHANGED <<opsFrame, mappings, unmatched, cache, log>>

\* POST /api/mappings from the lookup on: the update or the create, and
\* the answer.
PostMappingWrite ==
  /\ \E k \in 1..Len(requests) :
       /\ requests[k].kind = "mapping" /\ requests[k].pc = "write"
       /\ LET r == requests[k]
              skipOnly == [skipQueue |-> r.skipQueue[1]]
              bare == [shopifyProductId |-> r.productId,
                       shopifyVariantId |-> r.variantId,
                       simplyprintFileNames |-> JsonNull,
                       simplyprintFileName |-> NoName,
                       skipQueue |-> TRUE]
              filed == [simplyprintFileNames |-> JsonArray(r.files),
                        simplyprintFileName |-> r.files[1],
                        skipQueue |->
                          IF r.skipQueue # <<>> THEN r.skipQueue[1]
                          ELSE IF r.existing # NoRow THEN r.existing.skipQueue
                          ELSE FALSE]
          IN \E w \in {IF r.files = <<>>
                       THEN IF r.skipQueue = <<>>
                            THEN [ok |-> FALSE, table |-> mappings]
                            ELSE IF r.existing # NoRow
                            THEN UpdateMapping(mappings, r.existing.id, skipOnly)
                            ELSE IF r.skipQueue[1]
                            THEN CreateMapping(mappings, bare)
                            ELSE [ok |-> FALSE, table |-> mappings]
                       ELSE IF r.existing # NoRow
                       THEN UpdateMapping(mappings, r.existing.id, filed)
                       ELSE CreateMapping(mappings,
                              filed @@ [shopifyProductId |-> r.productId,
                                        shopifyVariantId |-> r.variantId])} :
               /\ mappings' = w.table
               /\ Respond(k, IF w.ok THEN 200 ELSE 400)
  /\ UNCHANGED <<opsFrame, unmatched, cache, log>>

\* POST /api/unmatched/:id/queue up to its first await: the row is read.
QueueFindItem ==
  /\ Len(requests) < MaxRequests
  /\ \E id \in 1..Len(OpsRows), saveMapping \in BOOLEAN,
        fileName \in QueueFileNames :
       LET found == FindUnmatched(unmatched, id)
           r == [NewRequest("queue") EXCEPT
                   !.id = id, !.fileName = fileName,
                   !.saveMapping = saveMapping, !.item = found]
       IN requests' = Append(requests,
            IF found = <<>> THEN [r EXCEPT !.pc = "done", !.status = 404]
            ELSE [r EXCEPT !.pc = IF saveMapping THEN "find" ELSE "submit"])
  /\ UNCHANGED <<opsFrame, mappings, unmatched, cache, log>>

\* saveMapping: the row of the item's pair is looked up.
QueueFindMapping ==
  /\ \E k \in 1..Len(requests) :
       /\ requests[k].kind = "queue" /\ requests[k].pc = "find"
       /\ \E existing \in findFirstMapping(mappings,
                            requests[k].item[1].shopifyProductId,
                            requests[k].item[1].shopifyVariantId) :
            requests' = [requests EXCEPT ![k].pc = "write",
                                         ![k].existing = existing]
  /\ UNCHANGED <<opsFrame, mappings, unmatched, cache, log>>

\* saveMapping: the row is updated or created with the one file.
QueueWriteMapping ==
  /\ \E k \in 1..Len(requests) :
       /\ requests[k].kind = "queue" /\ requests[k].pc = "write"
       /\ LET r == requests[k]
              filed == [simplyprintFileName |-> r.fileName,
                        simplyprintFileNames |-> JsonArray(<<r.fileName>>)]
          IN \E w \in {IF r.existing # NoRow
                       THEN UpdateMapping(mappings, r.existing.id, filed)
                       ELSE CreateMapping(mappings,
                              filed @@
                              [shopifyProductId |-> r.item[1].shopifyProductId,
                               shopifyVariantId |-> r.item[1].shopifyVariantId,
                               skipQueue |-> DefaultSkipQueue])} :
               /\ mappings' = w.table
               /\ IF w.ok THEN requests' = [requests EXCEPT ![k].pc = "submit"]
                  ELSE Respond(k, 400)
  /\ UNCHANGED <<opsFrame, unmatched, cache, log>>

\* the amount of the job: 1, whatever the row says
QueueAmount_One(item) == 1

\* the amount of the job: item.quantity
QueueAmount(item) == item.quantity

\* addToSimplyPrintQueue(payload.fileName, item.quantity)
QueueSubmit ==
  /\ \E k \in 1..Len(requests), submitOk \in BOOLEAN :
       /\ requests[k].kind = "queue" /\ requests[k].pc = "submit"
       /\ \E a \in {addToSimplyPrintQueue(requests[k].fileName,
                      QueueAmount(requests[k].item[1]),
                      [envOk |-> envOk, cat |-> catalog, cache |-> cache,
                       now |-> now, setting |-> setting, settingOk |-> TRUE,
                       groupsResp |-> GroupsOk(<<[id |-> 7, name |-> Shopify]>>),
                       submitOk |-> submitOk])} :
            /\ cache' = a.cache
            /\ log' = Append(log, [kind |-> "job", request |-> k,
                                   id |-> requests[k].id,
                                   outcome |-> a.outcome, posted |-> a.posted])
            /\ IF a.outcome = "queued"
               THEN requests' = [requests EXCEPT ![k].pc = "mark"]
               ELSE Respond(k, 400)
  /\ UNCHANGED <<opsFrame, mappings, unmatched>>

\* prisma.unmatchedLineItem.update: queuedAt and reason are set; refused
\* when the row is gone.
QueueMark ==
  /\ \E k \in 1..Len(requests) :
       /\ requests[k].kind = "queue" /\ requests[k].pc = "mark"
       /\ IF FindUnmatched(unmatched, requests[k].id) = <<>>
          THEN /\ Respond(k, 400)
               /\ UNCHANGED unmatched
          ELSE /\ unmatched' =
                    [i \in 1..Len(unmatched) |->
                       IF unmatched[i].id = requests[k].id
                       THEN [unmatched[i] EXCEPT !.queuedAt = <<now>>,
                                                 !.reason = "Queued manually"]
                       ELSE unmatched[i]]
               /\ Respond(k, 200)
  /\ UNCHANGED <<opsFrame, mappings, cache, log>>

\* DELETE /api/unmatched/:id.  The delete of a row that is gone rejects
\* outside any try: no answer is sent.  item keeps the row the delete
\* returned.
DeleteUnmatched ==
  /\ Len(requests) < MaxRequests
  /\ \E id \in 1..Len(OpsRows) :
       /\ unmatched' = SelectSeq(unmatched, LAMBDA r : r.id # id)
       /\ requests' = Append(requests,
            [NewRequest("dismiss") EXCEPT
               !.id = id, !.pc = "done",
               !.item = FindUnmatched(unmatched, id),
               !.status = IF FindUnmatched(unmatched, id) = <<>> THEN 0
                          ELSE 200])
  /\ UNCHANGED <<opsFrame, mappings, cache, log>>

OpsNext ==
  \/ PostMappingFind
  \/ PostMappingWrite
  \/ QueueFindItem
  \/ QueueFindMapping
  \/ QueueWriteMapping
  \/ QueueSubmit
  \/ QueueMark
  \/ DeleteUnmatched

SpecOps == OpsInit /\ [][OpsNext]_vars

\* The requests that have put a job in the print queue
Submitted ==
  {log[i].request : i \in {j \in 1..Len(log) : /\ log[j].kind = "job"
                                                /\ log[j].outcome = "queued"}}

\* The operation of request k began when its record was already queued
\* manually: the row it read carries queuedAt.
ReadQueuedRecord(k) ==
  /\ requests[k].item # <<>>
  /\ requests[k].item[1].queuedAt # <<>>

\* The operation of request k began after record id had been dismissed.
AfterDismissal(k) ==
  \E j \in 1..(k - 1) : /\ requests[j].kind = "dismiss"
                        /\ requests[j].id = requests[k].id
                        /\ requests[j].status = 200

\* C16: ManuallyQueued and Dismissed are terminal.  An operator operation
\* that begins on a record already queued manually neither submits a queue
\* job for it nor removes it, and an operation that begins after the
\* dismissal of a record submits no queue job for it.
C16_TerminalStates ==
  \A k \in 1..Len(requests) :
    /\ ReadQueuedRecord(k) =>
         /\ k \notin Submitted
         /\ ~(requests[k].kind = "dismiss" /\ requests[k].status = 200)
    /\ AfterDismissal(k) => k \notin Submitted

\* The pair a request writes a Mapping for
PairOf(r) ==
  IF r.kind = "queue"
  THEN <<r.item[1].shopifyProductId, r.item[1].shopifyVariantId>>
  ELSE <<r.productId, r.variantId>>

C20_FilesOrSkip ==
  \A m \in mappings : Len(normalizeMappingFiles(m)) > 0 \/ m.skipQueue

\* Request k takes the step.
StepOf(k) == k > Len(requests) \/ requests'[k] # requests[k]

\* The jobs request k sent to the print queue, after the step
JobsOf(k) == SelectSeq(log', LAMBDA e : e.kind = "job" /\ e.request = k)

\* No other request writes the Mapping of the pair of request k.
OnlyWriter(k) ==
  \A j \in (1..Len(requests')) \ {k} :
    LET r == requests'[j]
    IN (r.kind = "mapping"
          \/ (r.kind = "queue" /\ r.saveMapping /\ r.item # <<>>))
         => PairOf(r) # PairOf(requests'[k])

\* The rows resolve gives the record of request k after the step all have
\* the effective file list files.
ResolvesTo(k, files) ==
  \A m \in findMapping(mappings', PairOf(requests'[k])[1],
                       PairOf(requests'[k])[2]) :
    m # NoRow /\ normalizeMappingFiles(m) = files

\* The steps of the queue requests, with files(fileName) the effective
\* file list expected of the saved Mapping.
ResolveManuallySteps(files(_)) ==
  \A k \in 1..Len(requests') :
    (requests'[k].kind = "queue" /\ StepOf(k)) =>
      LET r == requests'[k]
      IN /\ ~r.saveMapping => mappings' = mappings
         /\ (k <= Len(requests) /\ requests[k].pc = "write"
               /\ r.pc = "submit") => ResolvesTo(k, files(r.fileName))
         /\ r.status = 200 =>
              /\ Len(JobsOf(k)) = 1
              /\ JobsOf(k)[1].outcome = "queued"
              /\ JobsOf(k)[1].posted =
                   <<[filesystem |-> ResolveFileId(catalog, r.fileName).id,
                      amount |-> r.item[1].quantity,
                      group |-> 7]>>
              /\ \E i \in 1..Len(unmatched') :
                   /\ unmatched'[i].id = r.id
                   /\ unmatched'[i].queuedAt # <<>>
              /\ (r.saveMapping /\ OnlyWriter(k))
                   => ResolvesTo(k, files(r.fileName))

FilesAsGiven(fileName) == <<fileName>>
FilesTrimmed(fileName) == <<Trim(fileName)>>

MaxTestFiles == 3

TestNames == {WidgetGcode, Part01Gcode, GhostStl}

\* if (!dryRun) taken as if (true)
Submits_Always(dryRun) == TRUE

\* if (!dryRun)
Submits(dryRun) == ~dryRun

\* arg is the parsed body (valid: testQueueSchema accepts it), ret the
\* results pushed so far.
TestInit ==
  /\ HandlerStart
  /\ arg \in [valid : BOOLEAN, fileNames : SeqsUpTo(TestNames, MaxTestFiles),
              quantity : {2}, dryRun : BOOLEAN]
  /\ ret = <<>>
  /\ called = FALSE
  /\ mappings = {}
  /\ catalog \in Catalogs
  /\ envOk \in BOOLEAN
  /\ webhookSecret = FALSE
  /\ setting \in {<<>>, <<5>>}
  /\ requests = <<>>

testFrame == <<arg, called, worldVars, unmatched, signature, order, itemIdx,
               filesToQueue>>

\* ensureSimplyPrintEnv, testQueueSchema.parse, await getQueueGroupId():
\* a throw of any of them is answered 400.
TestQueueStart ==
  /\ pc = "idle"
  /\ \E settingOk \in BOOLEAN, groupsResp \in GroupResponses :
     \E g \in {getQueueGroupId(cache, now, setting, settingOk, groupsResp)} :
       IF ~envOk \/ ~arg.valid
       THEN /\ pc' = "done"
            /\ res' = [status |-> 400, body |-> "error"]
            /\ UNCHANGED <<cache, log, fileIdx>>
       ELSE /\ cache' = g.cache
            /\ log' = Append(log, [kind |-> "group", idx |-> 0, ok |-> g.ok,
                                   calls |-> g.calls])
            /\ IF g.ok
               THEN /\ pc' = "files"
                    /\ fileIdx' = 1
                    /\ UNCHANGED res
               ELSE /\ pc' = "done"
                    /\ res' = [status |-> 400, body |-> "error"]
                    /\ UNCHANGED fileIdx
  /\ UNCHANGED <<testFrame, ret, now>>

\* One pass of the loop over fileNames: the resolution, and unless dryRun
\* the group id, read minutes after the call before it, and the
\* POST /queue/AddItem.
\* Every throw is caught and pushed as an error result.
TestQueueFile ==
  /\ pc = "files" /\ fileIdx <= Len(arg.fileNames)
  /\ \E minutes \in {m \in {0, TTL} : now + m <= MaxNow},
        settingOk \in BOOLEAN,
        groupsResp \in GroupResponses, submitOk \in BOOLEAN :
     \E file \in {ResolveFileId(catalog, arg.fileNames[fileIdx])},
        g \in {getQueueGroupId(cache, now + minutes, setting, settingOk,
                               groupsResp)} :
       LET fileName == arg.fileNames[fileIdx]
           found == [kind |-> "resolve", idx |-> fileIdx,
                     outcome |-> file.outcome, searches |-> file.searches]
           result(status) == [fileName |-> fileName, status |-> status]
       IN /\ fileIdx' = fileIdx + 1
          /\ IF file.outcome # "ok"
             THEN /\ ret' = Append(ret, result("error"))
                  /\ log' = Append(log, found)
                  /\ UNCHANGED <<cache, now>>
             ELSE IF ~Submits(arg.dryRun)
             THEN /\ ret' = Append(ret, result("ok"))
                  /\ log' = Append(log, found)
                  /\ UNCHANGED <<cache, now>>
             ELSE IF ~g.ok
             THEN /\ ret' = Append(ret, result("error"))
                  /\ log' = log \o <<found, [kind |-> "group", idx |-> fileIdx,
                                             ok |-> FALSE, calls |-> g.calls]>>
                  /\ now' = now + minutes
                  /\ UNCHANGED cache
             ELSE /\ now' = now + minutes
                  /\ ret' = Append(ret, result(IF submitOk THEN "ok"
                                               ELSE "error"))
                  /\ log' = log \o
                       <<found,
                         [kind |-> "group", idx |-> fileIdx, ok |-> TRUE,
                          calls |-> g.calls],
                         [kind |-> "post", idx |-> fileIdx, ok |-> submitOk,
                          body |-> [filesystem |-> file.id,
                                    amount |-> arg.quantity,
                                    group |-> g.id]]>>
                  /\ cache' = g.cache
  /\ UNCHANGED <<testFrame, pc, res>>

\* res.json({ results })
TestQueueRespond ==
  /\ pc = "files" /\ fileIdx > Len(arg.fileNames)
  /\ pc' = "done"
  /\ res' = [status |-> 200, body |-> "results"]
  /\ UNCHANGED <<testFrame, ret, now, cache, log, fileIdx>>

TestNext ==
  \/ TestQueueStart
  \/ TestQueueFile
  \/ TestQueueRespond

SpecTest == TestInit /\ [][TestNext]_vars

\* The POST /queue/AddItem calls made
Posts == SelectSeq(log, LAMBDA e : e.kind = "post")

\* fileNames[i] can be resolved in the catalog.
Resolvable(i) == ResolveFileId(catalog, arg.fileNames[i]).outcome = "ok"

\* The POST /queue/AddItem for fileNames[i] was made and succeeded.
Posted(i) == \E j \in 1..Len(Posts) : Posts[j].idx = i /\ Posts[j].ok

\* C22: with dryRun no POST /queue/AddItem is ever made; an answer with
\* results has one result per name of fileNames, in the order of
\* fileNames; a name that cannot be resolved has status "error", and
\* the status of every other entry is decided by its own name alone
\* (with dryRun: "ok" exactly when the name resolves; without: "ok"
\* exactly when its own submission succeeded).
C22_TestQueue ==
  /\ arg.dryRun => Posts = <<>>
  /\ Len(ret) <= Len(arg.fileNames)
  /\ (pc = "done" /\ res.status = 200) => Len(ret) = Len(arg.fileNames)
  /\ \A i \in 1..Len(ret) :
       /\ ret[i].fileName = arg.fileNames[i]
       /\ ~Resolvable(i) => ret[i].status = "error"
       /\ arg.dryRun => (ret[i].status = "ok" <=> Resolvable(i))
       /\ ~arg.dryRun => (ret[i].status = "ok" <=> Posted(i))

\* A dry run over three names answered with three results: the second
\* name is not in the catalog, the names before and after it are.
C22_Witness ==
  /\ pc = "done" /\ res.status = 200
  /\ arg.dryRun
  /\ arg.fileNames = <<WidgetGcode, GhostStl, WidgetGcode>>
  /\ [i \in 1..3 |-> ret[i].status] = <<"ok", "error", "ok">>
  /\ \E i \in 1..Len(log) : log[i].kind = "resolve" /\ log[i].idx = 3

AttemptAt == {p \in 1..Len(log) : log[p].kind = "attempt"}

\* The index of the file of the attempt at p in the effective file list
\* of the Mapping found for its line item (0: not in the list).
FileIndexAt(p) ==
  LET files == FilesOfRows[Finds(log[p].item)[1].mapping]
      at    == {k \in 1..Len(files) : files[k] = log[p].file}
  IN IF at = {} THEN 0 ELSE CHOOSE k \in at : TRUE

\* C24: the queue attempts of one invocation are made one after the other
\* in lexicographic order of (index of the line item in the payload, index
\* of the file in the effective file list): an attempt made later is for
\* a later line item, or for a later file of the same line item.
C24_AttemptsInOrder ==
  \A p \in AttemptAt, q \in AttemptAt :
    p < q =>
      /\ FileIndexAt(p) > 0 /\ FileIndexAt(q) > 0
      /\ \/ log[p].item < log[q].item
         \/ /\ log[p].item = log[q].item
            /\ FileIndexAt(p) < FileIndexAt(q)

\* Two line items with two files each: the four attempts were made, the
\* first of them failed.
C24_Witness ==
  /\ pc = "done"
  /\ Len(order.lineItems) = 2
  /\ Cardinality(AttemptAt) = 4
  /\ \E p \in AttemptAt : /\ \A q \in AttemptAt : p <= q
                          /\ log[p].outcome # "queued"

\* The variants of the claim in the order to search them: the first
\* occurrence of every non-empty entry of QueryVariants.
VariantList(fileName) ==
  LET vs == QueryVariants(fileName)
  IN SeqOfIdx(vs, {i \in 1..Len(vs) :
                     /\ vs[i] # <<>>
                     /\ \A j \in 1..(i-1) : vs[j] # vs[i]})

\* C25: resolveSimplyPrintFileId sends its searches one by one in the
\* order of the deduplicated variant list, each variant at most once; it
\* sends none after the first variant answered with a match, and it ends
\* with not-found only when every variant was searched and none matched.
C25_SearchesInOrder ==
  called =>
    LET vs == VariantList(arg.fileName)
        n  == Len(ret.searches)
    IN /\ n <= Len(vs)
       /\ ret.searches = SubSeq(vs, 1, n)
       /\ \A i \in 1..n, j \in 1..n : i # j => ret.searches[i] # ret.searches[j]
       /\ \A k \in 1..(n - 1) :
            /\ ~arg.cat[vs[k]].err
            /\ ~AnswersWithMatch(arg.cat, vs[k], arg.fileName)
       /\ ret.outcome = "ok" =>
            n >= 1 /\ AnswersWithMatch(arg.cat, vs[n], arg.fileName)
       /\ ret.outcome = "notfound" =>
            /\ n = Len(vs)
            /\ \A k \in 1..n : ~AnswersWithMatch(arg.cat, vs[k], arg.fileName)
       /\ ret.outcome \in {"ok", "notfound", "error"}
       /\ ret.outcome = "error" => n >= 1 /\ arg.cat[vs[n]].err

\* "Part-01.gcode" has three variants; the second was answered with a
\* match and the third was not searched.
C25_Witness ==
  /\ called
  /\ arg.fileName = Part01Gcode
  /\ ret.outcome = "ok"
  /\ Len(ret.searches) = 2
  /\ Len(VariantList(arg.fileName)) = 3

\* The cache after the event at position i of the log.
CacheAfter(i) ==
  IF i = Len(log) THEN cache ELSE log[i + 1].before

\* The call at i found no fresh entry and its read of the setting was
\* answered.
ReResolves(i) == IsGroupCall(i) /\ SettingAnswered(i)

\* C26: a call of getQueueGroupId that has to resolve anew and reads a
\* stored override that is a number returns that number, caches it with
\* the time of the call and does not list the groups.
C26_OverrideWins ==
  \A i \in 1..Len(log) :
    (ReResolves(i) /\ log[i].row # <<>>) =>
      /\ log[i].ok
      /\ log[i].id = log[i].row[1]
      /\ ~Listed(i)
      /\ CacheAfter(i) = [id |-> log[i].row, at |-> log[i].at]

\* The ids of the groups of a listing named like the target, whatever
\* the case of the letters
MatchingIds(groups) ==
  {groups[k].id : k \in {j \in 1..Len(groups) :
      toLowerCase(groups[j].name) = toLowerCase(SIMPLYPRINT_QUEUE_GROUP_NAME)}}

\* No change of the setting was answered between the events i and j.
NoChangeBetween(i, j) == \A k \in (i + 1)..(j - 1) : ~IsSettingsChange(k)

\* C27: a call of getQueueGroupId that resolves anew without an override
\* it can use and gets the groups listed returns the id of a group with
\* the target name, compared without regard to case, or 0 when there is
\* none; it caches what it returns, 0 included, and the calls that follow
\* within 5 minutes return the same id without listing the groups.
C27_ListingCached ==
  \A i \in 1..Len(log) :
    (/\ ReResolves(i)
     /\ log[i].row = <<>> \/ log[i].row = <<0>>
     /\ log[i].response # <<>> /\ ~log[i].response[1].err) =>
      LET ids == MatchingIds(log[i].response[1].list)
      IN /\ log[i].ok
         /\ IF ids = {} THEN log[i].id = 0 ELSE log[i].id \in ids
         /\ CacheAfter(i) = [id |-> <<log[i].id>>, at |-> log[i].at]
         /\ \A j \in (i + 1)..Len(log) :
              (/\ IsGroupCall(j)
               /\ NoChangeBetween(i, j)
               /\ log[j].at - log[i].at < 5) =>
                 /\ log[j].ok
                 /\ log[j].id = log[i].id
                 /\ log[j].calls = <<>>

\* A listing without a group of the target name: the call returns 0, and
\* the call made 4 minutes later returns 0 from the cache.
C27_Witness ==
  /\ Len(log) = 2
  /\ IsGroupCall(1) /\ IsGroupCall(2)
  /\ log[1].row = <<>>
  /\ log[1].response = <<GroupsOk(<<>>)>>
  /\ log[1].id = 0
  /\ log[2].at = 4
  /\ log[2].calls = <<>> /\ log[2].id = 0

\* ------------------------------------------------------------------------
\* getQueueGroupId and POST /api/settings/queue-group in flight together
\* ------------------------------------------------------------------------

\* The calls and requests of one run
MaxCalls == 3

\* The minutes that pass in one run
MaxRaceMinutes == 2

\* The print service lists one group, named like the target.
GroupsListed == GroupsOk(<<[id |-> 7, name |-> Shopify]>>)

\* groupId of the bodies of the setting changes: null or 9
ChangeInputs == {<<>>, <<9>>}

\* A call of getQueueGroupId or a POST /api/settings/queue-group: where it
\* is, the setting row it read, the groupId of its body.
NewCall(kind) ==
  [kind |-> kind, pc |-> "done", read |-> <<>>, groupId |-> <<>>,
   ret |-> <<>>]

raceFrame == <<fnVars, mappings, catalog, envOk, webhookSecret, unmatched, pc,
               signature, order, itemIdx, filesToQueue, fileIdx, res>>

RaceInit ==
  /\ FnUnused
  /\ HandlerStart
  /\ mappings = {}
  /\ catalog = <<>>
  /\ envOk = TRUE
  /\ webhookSecret = FALSE
  /\ setting \in {<<>>, <<5>>}
  /\ requests = <<>>

\* getQueueGroupId up to its first await: the cache test, then
\* prisma.setting.findUnique is sent.
RefreshStart ==
  /\ Len(requests) < MaxCalls
  /\ requests' = Append(requests,
       IF CacheFresh(cache, now)
       THEN [NewCall("refresh") EXCEPT !.ret = cache.id]
       ELSE [NewCall("refresh") EXCEPT !.pc = "setting"])
  /\ UNCHANGED <<raceFrame, setting, cache, now, log>>

\* The database answers findUnique with the row as it is now.
RefreshReadSetting ==
  /\ \E k \in 1..Len(requests) :
       /\ requests[k].kind = "refresh" /\ requests[k].pc = "setting"
       /\ requests' = [requests EXCEPT ![k].pc = "override",
                                       ![k].read = setting]
  /\ UNCHANGED <<raceFrame, setting, cache, now, log>>

\* The call resumes with the row it read: it caches and returns a usable
\* override, or sends GET /queue/groups/Get.
RefreshAfterSetting ==
  /\ \E k \in 1..Len(requests) :
       /\ requests[k].kind = "refresh" /\ requests[k].pc = "override"
       /\ \E g \in {getQueueGroupId(NoCache, now, requests[k].read, TRUE,
                                    GroupsFailed)} :
            IF g.ok
            THEN /\ cache' = g.cache
                 /\ requests' = [requests EXCEPT ![k].pc = "done",
                                                 ![k].ret = <<g.id>>]
                 /\ UNCHANGED log
            ELSE /\ requests' = [requests EXCEPT ![k].pc = "groups"]
                 /\ log' = Append(log, [kind |-> "list", request |-> k,
                                        at |-> now])
                 /\ UNCHANGED cache
  /\ UNCHANGED <<raceFrame, setting, now>>

\* The listing arrives and the call resumes: it caches and returns the
\* id of the group of the target name.
RefreshAfterListing ==
  /\ \E k \in 1..Len(requests) :
       /\ requests[k].kind = "refresh" /\ requests[k].pc = "groups"
       /\ \E g \in {getQueueGroupId(NoCache, now, <<>>, TRUE, GroupsListed)} :
            /\ cache' = g.cache
            /\ requests' = [requests EXCEPT ![k].pc = "done",
                                            ![k].ret = <<g.id>>]
  /\ UNCHANGED <<raceFrame, setting, now, log>>

\* POST /api/settings/queue-group up to its await: the body is parsed and
\* the delete or the upsert is sent.  One change is made in a run.
ChangeStart ==
  /\ Len(requests) < MaxCalls
  /\ \A k \in 1..Len(requests) : requests[k].kind # "change"
  /\ \E groupId \in ChangeInputs :
       requests' = Append(requests,
         [NewCall("change") EXCEPT !.pc = "db", !.groupId = groupId])
  /\ UNCHANGED <<raceFrame, setting, cache, now, log>>

\* The database deletes or writes the row.
ChangeWriteSetting ==
  /\ \E k \in 1..Len(requests) :
       /\ requests[k].kind = "change" /\ requests[k].pc = "db"
       /\ setting' = requests[k].groupId
       /\ requests' = [requests EXCEPT ![k].pc = "cache"]
  /\ UNCHANGED <<raceFrame, cache, now, log>>

\* The handler resumes: it clears the cache (null) or sets it to groupId,
\* and answers.
ChangeSetCache ==
  /\ \E k \in 1..Len(requests) :
       /\ requests[k].kind = "change" /\ requests[k].pc = "cache"
       /\ cache' = IF requests[k].groupId = <<>> THEN NoCache
                   ELSE [id |-> requests[k].groupId, at |-> now]
       /\ requests' = [requests EXCEPT ![k].pc = "done"]
       /\ log' = Append(log, [kind |-> "changed", request |-> k, at |-> now])
  /\ UNCHANGED <<raceFrame, setting, now>>

RaceTick ==
  /\ now < MaxRaceMinutes
  /\ now' = now + 1
  /\ UNCHANGED <<raceFrame, setting, requests, cache, log>>

RaceNext ==
  \/ RefreshStart
  \/ RefreshReadSetting
  \/ RefreshAfterSetting
  \/ RefreshAfterListing
  \/ ChangeStart
  \/ ChangeWriteSetting
  \/ ChangeSetCache
  \/ RaceTick

SpecRace == RaceInit /\ [][RaceNext]_vars

\* Every call and request has completed.
AllDone == \A k \in 1..Len(requests) : requests[k].pc = "done"

\* The id a resolution from the setting row gives: the override, or the id
\* of the listed group of the target name.
IdFromSetting(row) == IF row # <<>> /\ row[1] # 0 THEN row[1] ELSE 7

\* C28: when a change of the setting and the calls of getQueueGroupId in
\* flight with it have all completed, the cache is empty or holds the id
\* the new setting gives; a call that began before the change has not
\* left the id of the old setting in it.
C28_NoStaleIdAfterChange ==
  (AllDone /\ \E k \in 1..Len(requests) : requests[k].kind = "change") =>
     \/ cache = NoCache
     \/ cache.id = <<IdFromSetting(setting)>>

\* The calls to GET /queue/groups/Get made in the first 5 minutes
ListingsInWindow ==
  {i \in 1..Len(log) : log[i].kind = "list" /\ log[i].at < TTL}

\* C29: with the cache cleared and no override stored, the calls of
\* getQueueGroupId that run at the same time list the groups at most
\* twice in all, however many they are.
C29_AtMostOneExtraListing ==
  (setting = <<>> /\ \A k \in 1..Len(requests) : requests[k].kind = "refresh")
    => Cardinality(ListingsInWindow) <= 2

\* ------------------------------------------------------------------------
\* GET /api/simplyprint/suggest with its searches in flight together
\* ------------------------------------------------------------------------

FiveWords == <<"b","l","u","e"," ","w","i","d","g","e","t"," ","a","n","d",
               " ","p","a","r","t"," ","m","o","r","e">>
BlueTwice == <<"b","l","u","e"," ","b","l","u","e"," ","w","i","d","g","e","t">>

\* Promise.all in a variant that collects the values as they arrive
Settle_Arrival(slots, k, response) ==
  LET p == CHOOSE i \in 1..Len(slots) :
             slots[i].value = <<>> /\ \A j \in 1..(i-1) : slots[j].value # <<>>
  IN [slots EXCEPT ![p].value = <<response>>]

\* Promise.all: the value of the k-th promise is the k-th of the values.
Settle(slots, k, response) == [slots EXCEPT ![k].value = <<response>>]

\* Promise.allSettled in place of Promise.all: no search rejects the whole
Rejected_Never(response) == FALSE

\* axios.get rejects on a failed search, and Promise.all with it.
Rejected(response) == response.err

fanOutFrame == <<arg, called, mappings, catalog, envOk, webhookSecret,
                 setting, unmatched, cache, now, signature, order, itemIdx,
                 filesToQueue, fileIdx, res>>

FanOutInit ==
  /\ HandlerStart
  /\ mappings = {}
  /\ catalog = <<>>
  /\ envOk = TRUE
  /\ webhookSecret = FALSE
  /\ setting = <<>>
  /\ requests = <<>>
  /\ arg \in [query : {WidgetBlue, BluePadded, ShortWords, FiveWords, BlueTwice},
              cat : SuggestCatalogs, env : BOOLEAN]
  /\ ret = [status |-> 0, files |-> <<>>]
  /\ called = FALSE

\* The handler up to its await: the answers that need no search, or one
\* axios.get per token, all sent.
FanOutStart ==
  /\ pc = "idle"
  /\ LET query  == Trim(arg.query)
         tokens == SuggestTokens(normalizeText(query))
     IN IF ~arg.env
        THEN /\ ret' = [status |-> 500, files |-> <<>>]
             /\ pc' = "done"
             /\ UNCHANGED requests
        ELSE IF query = <<>> \/ tokens = <<>>
        THEN /\ ret' = [status |-> 200, files |-> <<>>]
             /\ pc' = "done"
             /\ UNCHANGED requests
        ELSE /\ requests' = [k \in 1..Len(tokens) |->
                               [token |-> tokens[k], pending |-> TRUE,
                                value |-> <<>>]]
             /\ pc' = "searching"
             /\ UNCHANGED ret
  /\ UNCHANGED <<fanOutFrame, log>>

\* One of the searches in flight completes.  A failed search rejects
\* Promise.all and the handler answers 500.
SearchCompletes ==
  /\ pc = "searching"
  /\ \E k \in 1..Len(requests) :
       /\ requests[k].pending
       /\ \E response \in {Search(arg.cat, requests[k].token)} :
            IF Rejected(response)
            THEN /\ requests' = [requests EXCEPT ![k].pending = FALSE]
                 /\ ret' = [status |-> 500, files |-> <<>>]
                 /\ pc' = "done"
            ELSE /\ requests' = [Settle(requests, k, response)
                                   EXCEPT ![k].pending = FALSE]
                 /\ UNCHANGED <<ret, pc>>
       /\ log' = Append(log, k)
  /\ UNCHANGED fanOutFrame

\* All searches have completed: the handler resumes with the values.
FanOutRespond ==
  /\ pc = "searching"
  /\ \A k \in 1..Len(requests) : ~requests[k].pending
  /\ ret' = [status |-> 200,
             files |-> Ranked([k \in 1..Len(requests) |-> requests[k].value[1]],
                              normalizeText(Trim(arg.query)))]
  /\ pc' = "done"
  /\ UNCHANGED <<fanOutFrame, requests, log>>

FanOutNext ==
  \/ FanOutStart
  \/ SearchCompletes
  \/ FanOutRespond

SpecFanOut == FanOutInit /\ [][FanOutNext]_vars

\* C30: suggest sends at most 4 searches, each for a token of the
\* normalized query longer than 2 characters and no two for the same
\* token, and its answer is the one the query and the catalog give, in
\* whatever order the searches complete.
C30_FanOut ==
  /\ Len(requests) <= 4
  /\ \A k \in 1..Len(requests) :
       /\ Len(requests[k].token) > 2
       /\ requests[k].token \in Range(Split(normalizeText(Trim(arg.query))))
       /\ \A j \in 1..(k-1) : requests[j].token # requests[k].token
  /\ pc = "done" => ret = suggest(arg.cat, arg.env, arg.query)

\* The search for the second token completed first; both answered with the
\* same file among others, and the answer lists files of both.
C30_Witness ==
  /\ pc = "done" /\ ret.status = 200
  /\ log = <<2, 1>>
  /\ \E i \in 1..Len(requests[1].value[1].files) :
       \E j \in 1..Len(requests[2].value[1].files) :
         FileKey(requests[1].value[1].files[i])
           = FileKey(requests[2].value[1].files[j])
  /\ Len(ret.files) = 8
  /\ \E i \in 1..7 : ret.files[i].score = ret.files[i + 1].score

\* The searches of the request that fail
FailingSearches ==
  {k \in 1..Len(requests) : Search(arg.cat, requests[k].token).err}

\* C31: when one of the searches of a suggest request fails, the request
\* is answered with a failure and no files, whatever the other searches
\* returned.
C31_OneFailureFailsAll ==
  (pc = "done" /\ FailingSearches # {}) =>
     ret = [status |-> 500, files |-> <<>>]

\* A search answered with files before another one failed.
C31_Witness ==
  /\ pc = "done" /\ ret.status = 500
  /\ Len(log) = 2
  /\ requests[log[1]].value # <<>>
  /\ requests[log[1]].value[1].files # <<>>
  /\ log[2] \in FailingSearches

\* ------------------------------------------------------------------------
\* The webhook pipeline with an external call that never returns
\* ------------------------------------------------------------------------

\* addToSimplyPrintQueue has passed ensureSimplyPrintEnv and awaits
\* axios.get or axios.post, sent without a timeout: the call never
\* settles and the handler is not resumed.
ExternalCallHangs ==
  /\ pc = "files"
  /\ envOk
  /\ pc' = "waiting"
  /\ UNCHANGED <<fnVars, worldVars, unmatched, cache, now, signature, order,
                 itemIdx, filesToQueue, fileIdx, res, log>>

StuckNext ==
  \/ WebhookReceive
  \/ WebhookItem
  \/ WebhookFile
  \/ Elapse
  \/ ExternalCallHangs

\* The handler is resumed whenever the call it awaits has settled.
SpecStuck ==
  /\ Init
  /\ [][StuckNext]_vars
  /\ WF_vars(WebhookReceive \/ WebhookItem \/ WebhookFile)

\* C32: when an external call made for a file of an order never returns,
\* the pipeline still goes on and the order is acknowledged in the end.
C32_StuckCallDoesNotBlock == (pc = "waiting") ~> (pc = "done")

\* ------------------------------------------------------------------------
\* The webhook handler: failures of single parts
\* ------------------------------------------------------------------------

\* Attempt e reached no external service.
NoExternalCall(e) == e.searches = <<>> /\ e.calls = <<>> /\ e.posted = <<>>

\* C33: with the credentials of the print service missing an order is
\* acknowledged; every file of every mapped line item that is not skipped
\* gets an UnmatchedLineItem row with reason "Queueing failed" and no
\* external call, and a line item without Mapping gets its row with
\* reason "No mapping found".
C33_MissingCredentials ==
  (~envOk /\ pc = "done") =>
    /\ res.status = 200
    /\ Finished =>
         \A i \in 1..Len(order.lineItems) :
           \A m \in MappingsOf(i) :
             /\ (HasProduct(i) /\ m = NoRow) =>
                  /\ Len(RowsOf(i)) = 1
                  /\ RowsOf(i)[1].row.reason = "No mapping found"
             /\ (HasProduct(i) /\ m # NoRow /\ ~m.skipQueue) =>
                  /\ Len(Attempts(i)) = Len(FilesOf(m))
                  /\ \A k \in 1..Len(Attempts(i)) : NoExternalCall(Attempts(i)[k])
                  /\ Len(RowsOf(i)) = Len(FilesOf(m))
                  /\ \A k \in 1..Len(RowsOf(i)) :
                       RowsOf(i)[k].row.reason = "Queueing failed"

\* The line items without a product identifier
NoProduct ==
  {i \in 1..Len(order.lineItems) : order.lineItems[i].product_id = NULL}

\* Line item i was reached by the loop.
Reached(i) == \E k \in 1..Len(log) : log[k].item = i

\* C34: a line item without a product identifier causes no mapping
\* lookup, no queue call and no UnmatchedLineItem row, and the line items
\* after it are processed.
C34_NoProductSkipped ==
  /\ \A i \in NoProduct :
       /\ Finds(i) = <<>>
       /\ Attempts(i) = <<>>
       /\ Records(i) = <<>>
       /\ \A k \in 1..Len(unmatched) :
            unmatched[k] \in Range(EarlierRows) \/ unmatched[k].shopifyProductId # ""
  /\ Finished =>
       \A i \in 1..Len(order.lineItems) :
         /\ Reached(i)
         /\ HasProduct(i) => Len(Finds(i)) = 1

\* An order whose first line item has no product identifier and whose
\* second one was queued.
C34_Witness ==
  /\ Finished
  /\ Len(order.lineItems) = 2
  /\ 1 \in NoProduct
  /\ Len(Attempts(2)) = 1
  /\ Attempts(2)[1].outcome = "queued"

\* ------------------------------------------------------------------------
\* The webhook handler with a Mapping that holds no file
\* ------------------------------------------------------------------------

\* Orders with an id, of line items with no, one and two files to queue and
\* without Mapping.
UnfiledOrders ==
  {[orderId |-> "1001", orderName |-> "#1001", lineItems |-> items] :
     items \in SeqsUpTo({Item("P4", NULL, <<1>>, NULL),
                         Item("P1", "V1", <<3>>, "SKU-1"),
                         Item("P1", "V2", <<>>, NULL),
                         Item("P2", NULL, <<2>>, NULL)}, MaxItems)}

UnfiledInit ==
  /\ FnUnused
  /\ HandlerIdle
  /\ mappings = PipelineRows \cup {UnfiledRow}
  /\ \E w \in Worlds :
       /\ unmatched = w.unmatched
       /\ catalog = w.cat
       /\ envOk = w.envOk
       /\ webhookSecret = w.secret
       /\ setting = w.setting
  /\ requests = <<>>

\* A request with a valid signature and an order as its body
WebhookReceiveOrder ==
  /\ pc = "idle"
  /\ signature' = IF webhookSecret THEN "valid" ELSE "unchecked"
  /\ order' \in UnfiledOrders
  /\ itemIdx' = 1
  /\ pc' = "items"
  /\ UNCHANGED <<fnVars, worldVars, unmatched, cache, now, filesToQueue,
                 fileIdx, res, log>>

UnfiledNext ==
  \/ WebhookReceiveOrder
  \/ WebhookItem
  \/ WebhookFile
  \/ Elapse

SpecUnfiled == UnfiledInit /\ [][UnfiledNext]_vars

\* The outcomes of line item i
Queued(i) ==
  /\ \E k \in 1..Len(Attempts(i)) : Attempts(i)[k].outcome = "queued"
  /\ \A k \in 1..Len(Attempts(i)) : Attempts(i)[k].outcome = "queued"
Skipped(i) ==
  \E k \in 1..Len(Finds(i)) :
    Finds(i)[k].mapping # NoRow /\ Finds(i)[k].mapping.skipQueue
Unmatched(i) == RowsOf(i) # <<>>

MaxHandlers == 2

\* The line items of the orders: one file, two files, no Mapping
OrderLines ==
  {<<Item("P1", "V1", <<3>>, "SKU-1"), Item("P2", NULL, <<2>>, NULL)>>,
   <<Item("P1", "V2", <<>>, NULL)>>,
   <<Item("P2", NULL, <<2>>, NULL), Item("P1", "V1", <<1>>, NULL)>>}

OrderIds == <<"1001", "1002", "1003">>

\* An invocation of the handler with its locals: the order, the loop
\* positions, the files of the line item, the resolved file, the group.
NewHandler(k, lines) ==
  [order |-> [orderId |-> OrderIds[k], orderName |-> NULL, lineItems |-> lines],
   pc |-> "items", itemIdx |-> 1, fileIdx |-> 0, files |-> <<>>,
   fileId |-> NULL, group |-> 0]

\* The print service answers every listing and every submission of a run
\* in the same way: arg holds the two answers.
OrdersInit ==
  /\ HandlerIdle
  /\ mappings = PipelineRows
  /\ \E w \in Worlds :
       /\ unmatched = w.unmatched
       /\ catalog = w.cat
       /\ envOk = w.envOk
       /\ webhookSecret = w.secret
       /\ setting = w.setting
  /\ arg \in [groupsResp : GroupResponses, submitOk : BOOLEAN]
  /\ ret = 0
  /\ called = FALSE
  /\ \E lines \in [1..MaxHandlers -> OrderLines] :
       requests = [k \in 1..MaxHandlers |-> NewHandler(k, lines[k])]

ordersFrame == <<arg, called, mappings, catalog, envOk, webhookSecret,
                 setting, now, pc, signature, order,
                 itemIdx, filesToQueue, fileIdx, res>>

\* const quantity kept in a variable of the module
AmountFor_Shared(k) == ret

\* const quantity = Number(item?.quantity ?? 1), a local of the loop body
AmountFor(k) ==
  QuantityOf(requests[k].order.lineItems[requests[k].itemIdx])

\* The row recordUnmatchedLineItem creates for invocation k.
HandlerRow(k, reason) ==
  LET h    == requests[k]
      item == h.order.lineItems[h.itemIdx]
  IN [UnmatchedRow(Len(unmatched) + 1, item, reason)
        EXCEPT !.orderId = h.order.orderId, !.orderName = h.order.orderName,
               !.quantity = AmountFor(k)]

\* Invocation k after the file at fileIdx, queued or failed and recorded.
Advance(k, failed) ==
  LET h    == requests[k]
      next == AfterFile(h.fileIdx, Len(h.files), failed)
  IN [h EXCEPT !.pc = IF next.pc = "files" THEN "resolve" ELSE "items",
               !.fileIdx = next.fileIdx,
               !.itemIdx = h.itemIdx + next.step]

\* The catch of the file loop, then the next file.
FileFailed(k) ==
  /\ unmatched' = CreateUnmatched(unmatched, HandlerRow(k, "Queueing failed"))
  /\ requests' = [requests EXCEPT ![k] = Advance(k, TRUE)]
  /\ UNCHANGED <<cache, log>>

\* One pass of the line-item loop of invocation k up to the file loop.
HandlerItem ==
  /\ \E k \in 1..Len(requests) :
       LET h == requests[k]
       IN /\ h.pc = "items"
          /\ IF h.itemIdx > Len(h.order.lineItems)
             THEN /\ requests' = [requests EXCEPT ![k].pc = "done"]
                  /\ UNCHANGED <<unmatched, ret>>
             ELSE LET item == h.order.lineItems[h.itemIdx]
                      next == [h EXCEPT !.itemIdx = h.itemIdx + 1]
                  IN /\ ret' = QuantityOf(item)
                     /\ \E mapping \in findMapping(mappings, ProductIdOf(item),
                                                  item.variant_id) :
                          IF mapping = NoRow
                          THEN /\ unmatched' = CreateUnmatched(unmatched,
                                     HandlerRow(k, "No mapping found"))
                               /\ requests' = [requests EXCEPT ![k] = next]
                          ELSE IF SkipsQueue(mapping) \/ FilesOf(mapping) = <<>>
                          THEN /\ requests' = [requests EXCEPT ![k] = next]
                               /\ UNCHANGED unmatched
                          ELSE /\ requests' =
                                    [requests EXCEPT ![k].pc = "resolve",
                                                     ![k].files = FilesOf(mapping),
                                                     ![k].fileIdx = 1]
                               /\ UNCHANGED unmatched
  /\ UNCHANGED <<ordersFrame, cache, log>>

\* addToSimplyPrintQueue of invocation k up to the first await of
\* getQueueGroupId: the credentials, the searches, the cache test.
HandlerResolve ==
  /\ \E k \in 1..Len(requests) :
       LET h    == requests[k]
       IN /\ h.pc = "resolve"
          /\ \E file \in {ResolveFileId(catalog, h.files[h.fileIdx])} :
               IF ~envOk \/ file.outcome # "ok"
               THEN FileFailed(k)
               ELSE /\ requests' =
                         IF CacheFresh(cache, now)
                         THEN [requests EXCEPT ![k].pc = "post",
                                               ![k].fileId = file.id,
                                               ![k].group = cache.id[1]]
                         ELSE [requests EXCEPT ![k].pc = "setting",
                                               ![k].fileId = file.id]
                    /\ UNCHANGED <<unmatched, cache, log>>
  /\ UNCHANGED <<ordersFrame, ret>>

\* getQueueGroupId of invocation k resumes with the setting row.
HandlerSetting ==
  /\ \E k \in 1..Len(requests) :
       /\ requests[k].pc = "setting"
       /\ \E g \in {getQueueGroupId(NoCache, now, setting, TRUE, GroupsFailed)} :
            IF g.ok
            THEN /\ cache' = g.cache
                 /\ requests' = [requests EXCEPT ![k].pc = "post",
                                                 ![k].group = g.id]
            ELSE /\ requests' = [requests EXCEPT ![k].pc = "listing"]
                 /\ UNCHANGED cache
  /\ UNCHANGED <<ordersFrame, unmatched, ret, log>>

\* getQueueGroupId of invocation k resumes with the listing, or throws.
HandlerListing ==
  /\ \E k \in 1..Len(requests) :
       /\ requests[k].pc = "listing"
       /\ \E g \in {getQueueGroupId(NoCache, now, <<>>, TRUE, arg.groupsResp)} :
            IF g.ok
            THEN /\ cache' = g.cache
                 /\ requests' = [requests EXCEPT ![k].pc = "post",
                                                 ![k].group = g.id]
                 /\ UNCHANGED <<unmatched, log>>
            ELSE FileFailed(k)
  /\ UNCHANGED <<ordersFrame, ret>>

\* POST /queue/AddItem of invocation k is answered.
HandlerPost ==
  /\ \E k \in 1..Len(requests) :
       LET h == requests[k]
       IN /\ h.pc = "post"
          /\ IF arg.submitOk
             THEN /\ log' = Append(log,
                       [kind |-> "post", request |-> k,
                        file |-> h.files[h.fileIdx], filesystem |-> h.fileId,
                        amount |-> AmountFor(k), group |-> h.group])
                  /\ requests' = [requests EXCEPT ![k] = Advance(k, FALSE)]
                  /\ UNCHANGED <<unmatched, cache>>
             ELSE FileFailed(k)
  /\ UNCHANGED <<ordersFrame, ret>>

OrdersNext ==
  \/ HandlerItem
  \/ HandlerResolve
  \/ HandlerSetting
  \/ HandlerListing
  \/ HandlerPost

SpecOrders == OrdersInit /\ [][OrdersNext]_vars

\* What the line items of order o ask for, in order: a record for a line
\* item without Mapping, an attempt for every file of a Mapping that is
\* not skipped.
JobsOfOrder(o) ==
  Flatten([i \in 1..Len(o.lineItems) |->
    LET item == o.lineItems[i]
        m    == CHOOSE r \in findMapping(mappings, ProductIdOf(item),
                                         item.variant_id) : TRUE
    IN IF ProductIdOf(item) = "" THEN <<>>
       ELSE IF m = NoRow
       THEN <<[order |-> o, item |-> item, file |-> <<>>]>>
       ELSE IF m.skipQueue THEN <<>>
       ELSE [f \in 1..Len(FilesOf(m)) |->
               [order |-> o, item |-> item, file |-> FilesOf(m)[f]]]])

\* What a row says, without the id and the time the table gave it.
Content(row) == [row EXCEPT !.id = 0, !.createdAt = 0]

\* The invocations run one after the other, in the order of their
\* arrival: the files and amounts submitted and the rows created.
OneAfterTheOther ==
  LET jobs == Flatten([k \in 1..Len(requests) |-> JobsOfOrder(requests[k].order)])
      F[n \in 0..Len(jobs)] ==
        IF n = 0 THEN [cache |-> NoCache, posts |-> <<>>, rows |-> <<>>]
        ELSE LET before == F[n - 1]
                 job    == jobs[n]
                 row    == [Content(UnmatchedRow(0, job.item, "No mapping found"))
                              EXCEPT !.orderId = job.order.orderId,
                                     !.orderName = job.order.orderName]
             IN IF job.file = <<>>
                THEN [before EXCEPT !.rows = Append(@, row)]
                ELSE LET r == addToSimplyPrintQueue(job.file, QuantityOf(job.item),
                                [envOk |-> envOk, cat |-> catalog,
                                 cache |-> before.cache, now |-> now,
                                 setting |-> setting, settingOk |-> TRUE,
                                 groupsResp |-> arg.groupsResp,
                                 submitOk |-> arg.submitOk])
                     IN IF r.outcome = "queued"
                        THEN [before EXCEPT
                                !.cache = r.cache,
                                !.posts = Append(@, [file |-> job.file,
                                                     amount |-> QuantityOf(job.item)])]
                        ELSE [before EXCEPT
                                !.cache = r.cache,
                                !.rows = Append(@, [row EXCEPT
                                                      !.reason = "Queueing failed"])]
  IN F[Len(jobs)]

\* The multiset of the entries of a sequence
BagOf(seq) ==
  [x \in Range(seq) |-> Cardinality({i \in 1..Len(seq) : seq[i] = x})]

\* The submissions of the run and the rows it created
Submissions == [i \in 1..Len(log) |-> [file |-> log[i].file, amount |-> log[i].amount]]
RowsCreated ==
  LET old == IF unmatched # <<>> /\ unmatched[1] \in Range(EarlierRows)
             THEN Len(EarlierRows) ELSE 0
  IN [i \in 1..(Len(unmatched) - old) |-> Content(unmatched[old + i])]

\* C36: handlers for different orders that run at the same time, over the
\* same Mappings and a print service that answers alike every time, submit
\* the same files and amounts and create the same UnmatchedLineItem rows
\* (ids and creation times aside) as when run one after the other, in
\* every interleaving; they share the queue-group cache only.
C36_SameAsSequential ==
  AllDone =>
    \E s \in {OneAfterTheOther} :
      /\ BagOf(Submissions) = BagOf(s.posts)
      /\ BagOf(RowsCreated) = BagOf(s.rows)

\* The second invocation queued its file while the first was between two
\* files, and both a submission and a row of each kind came about.
C36_Witness ==
  /\ AllDone
  /\ Len(log) >= 3
  /\ \E i \in 1..(Len(log) - 2) :
       log[i].request = 1 /\ log[i + 1].request = 2 /\ log[i + 2].request = 1
  /\ \E i \in 1..Len(unmatched) : unmatched[i].reason = "No mapping found"

\* ------------------------------------------------------------------------
\* The webhook handler when every call it awaits returns
\* ------------------------------------------------------------------------

\* Every awaited call settles, with a result or an error, and the handler
\* is resumed.
SpecReturns ==
  /\ UnfiledInit
  /\ [][UnfiledNext]_vars
  /\ WF_vars(WebhookReceiveOrder \/ WebhookItem \/ WebhookFile)

\* No file of line item i was attempted twice, and no attempt posted more
\* than one queue item.
SingleAttempt(i) ==
  /\ \A a, b \in 1..Len(Attempts(i)) :
       a # b => Attempts(i)[a].file # Attempts(i)[b].file
  /\ \A a \in 1..Len(Attempts(i)) : Len(Attempts(i)[a].posted) <= 1

\* C37: when every call returns, the handler comes to its end, and on the
\* way it attempts each file of each line item once: one submission at
\* most, no second try after a failure.
C37_TerminatesSingleAttempt ==
  /\ <>(pc = "done")
  /\ [](\A i \in 1..Len(order.lineItems) : SingleAttempt(i))

\* Both files of a line item failed, each was attempted once, and the
\* handler has answered.
C37_Witness ==
  /\ Finished
  /\ Len(order.lineItems) = 2
  /\ Len(Attempts(1)) = 2
  /\ Attempts(1)[1].outcome # "queued"
  /\ Attempts(1)[2].outcome # "queued"
  /\ Attempts(1)[1].file # Attempts(1)[2].file
  /\ Len(Attempts(2)) = 1

\* ------------------------------------------------------------------------
\* The operator's endpoints: failures
\* ------------------------------------------------------------------------

\* Request k was refused because addToSimplyPrintQueue threw.
QueueingFailed(k) ==
  /\ requests[k].kind = "queue"
  /\ requests[k].pc = "done" /\ requests[k].status = 400
  /\ \E p \in 1..Len(log) :
       log[p].kind = "job" /\ log[p].request = k /\ log[p].outcome # "queued"

\* C38: when the resolution or the submission fails in POST
\* /api/unmatched/:id/queue with saveMapping, the request is answered with
\* an error and the tables are as before it: the row is not marked queued
\* and no Mapping was created or changed.
C38_FailureLeavesState ==
  (Len(requests) = 1 /\ QueueingFailed(1)) =>
     /\ unmatched = OpsRows
     /\ mappings = {}

\* ------------------------------------------------------------------------
\* The webhook handler: a search that fails
\* ------------------------------------------------------------------------

\* The variants of fileName whose search fails after the searches before
\* it were answered without a match.
FailsAt(cat, fileName) ==
  LET vs == VariantList(fileName)
  IN {k \in 1..Len(vs) :
        /\ Search(cat, vs[k]).err
        /\ \A j \in 1..(k - 1) :
             /\ ~Search(cat, vs[j]).err
             /\ ~AnswersWithMatch(cat, vs[j], fileName)}

\* C39: when the search for a query variant fails, the resolution fails
\* with it and no further variant is searched for, and the webhook
\* handler records the file as "Queueing failed", also when a later
\* variant would have matched.
C39_SearchFailureFailsFile ==
  (Finished /\ envOk) =>
    \A p \in AttemptAt :
      \A k \in FailsAt(catalog, log[p].file) :
        /\ log[p].outcome = "error"
        /\ log[p].searches = SubSeq(VariantList(log[p].file), 1, k)
        /\ p < Len(log)
        /\ log[p + 1].kind = "record"
        /\ log[p + 1].ok
        /\ log[p + 1].row.reason = "Queueing failed"
        /\ log[p + 1].row \in Range(unmatched)

\* ------------------------------------------------------------------------
\* migrate-mappings, run before the server at every start
\* ------------------------------------------------------------------------

MaxMappings == 1
MaxStored == 2
MaxRuns == 2

\* The text of the column simplyprintFileNames: null, no JSON, JSON that
\* is no array, or an array of names written compactly (as JSON.stringify
\* writes it) or with blanks between its parts.
RawTexts ==
  {[json |-> j, items |-> <<>>, text |-> "compact"] :
     j \in {"null", "invalid", "scalar"}}
  \cup [json : {"array"}, items : SeqsUpTo({WidgetGcode, Blank}, MaxStored),
        text : {"compact", "spaced"}]

\* The column simplyprintFileName: null or a name
LegacyNames == {NoName, Blank, WidgetPadded, Part01Gcode}

\* JSON.stringify(files)
Stringify(files) == [json |-> "array", items |-> files, text |-> "compact"]

\* The files run() computes for a row: the names of the stored array
\* that are not blank, else the trimmed legacy name.
MigrationFiles(mapping) ==
  LET legacy == IF mapping.simplyprintFileName = NoName THEN <<>>
                ELSE Trim(mapping.simplyprintFileName)
      raw    == mapping.simplyprintFileNames
      files  == IF raw.json = "array"
                THEN SelectSeq(raw.items, LAMBDA name : Trim(name) # <<>>)
                ELSE <<>>
  IN IF files = <<>> /\ legacy # <<>> THEN <<legacy>> ELSE files

\* Whether run() updates the row
NeedsUpdate(mapping) ==
  /\ MigrationFiles(mapping) # <<>>
  /\ mapping.simplyprintFileNames # Stringify(MigrationFiles(mapping))

\* prisma.mapping.update of the row
Migrated(mapping) ==
  [mapping EXCEPT !.simplyprintFileNames = Stringify(MigrationFiles(mapping)),
                  !.simplyprintFileName = MigrationFiles(mapping)[1]]

migrateFrame == <<called, catalog, envOk, webhookSecret, setting, unmatched,
                  cache, now, signature, order, filesToQueue, fileIdx, res,
                  log>>

\* arg is the table the first run finds, ret the number of rows each run
\* has updated, requests the rows findMany gave the run in progress.
MigrateInit ==
  /\ HandlerStart
  /\ catalog = <<>>
  /\ envOk = TRUE
  /\ webhookSecret = FALSE
  /\ setting = <<>>
  /\ requests = <<>>
  /\ called = FALSE
  /\ ret = <<>>
  /\ \E n \in 0..MaxMappings :
       arg \in [1..n -> [simplyprintFileNames : RawTexts,
                         simplyprintFileName : LegacyNames]]
  /\ mappings = {[id |-> i,
                  simplyprintFileNames |-> arg[i].simplyprintFileNames,
                  simplyprintFileName |-> arg[i].simplyprintFileName] :
                   i \in DOMAIN arg}

\* The container starts: run() reads the table.
MigrateStart ==
  /\ pc \in {"idle", "migrated"}
  /\ Len(ret) < MaxRuns
  /\ requests' = [i \in 1..Cardinality(mappings) |->
                    CHOOSE m \in mappings : m.id = i]
  /\ itemIdx' = 1
  /\ ret' = Append(ret, 0)
  /\ pc' = "migrating"
  /\ UNCHANGED <<migrateFrame, arg, mappings>>

\* One pass of the loop of run().
MigrateRow ==
  /\ pc = "migrating"
  /\ itemIdx <= Len(requests)
  /\ LET mapping == requests[itemIdx]
     IN IF NeedsUpdate(mapping)
        THEN /\ mappings' = {IF m.id = mapping.id THEN Migrated(mapping) ELSE m :
                               m \in mappings}
             /\ ret' = [ret EXCEPT ![Len(ret)] = @ + 1]
        ELSE UNCHANGED <<mappings, ret>>
  /\ itemIdx' = itemIdx + 1
  /\ UNCHANGED <<migrateFrame, arg, requests, pc>>

\* The loop has ended: the count is logged and the server starts.
MigrateEnd ==
  /\ pc = "migrating"
  /\ itemIdx > Len(requests)
  /\ pc' = "migrated"
  /\ UNCHANGED <<migrateFrame, arg, mappings, requests, itemIdx, ret>>

MigrateNext ==
  \/ MigrateStart
  \/ MigrateRow
  \/ MigrateEnd

SpecMigrate == MigrateInit /\ [][MigrateNext]_vars

\* A second run updates no row.
SecondRunIdle == Len(ret) >= 2 => ret[2] = 0

\* After a run a row with files holds them in both columns.
RowsConsistent ==
  pc = "migrated" =>
    \A m \in mappings :
      MigrationFiles(m) # <<>> =>
        /\ m.simplyprintFileNames = Stringify(MigrationFiles(m))
        /\ m.simplyprintFileName = MigrationFiles(m)[1]

\* A row without files is as the first run found it.
UnfiledUntouched ==
  \A m \in mappings :
    MigrationFiles(m) = <<>> =>
      /\ m.simplyprintFileNames = arg[m.id].simplyprintFileNames
      /\ m.simplyprintFileName = arg[m.id].simplyprintFileName

====
